---- MODULE Spec2Model ----
(***************************************************************************)
(* State-machine model of the AxeSTUDIO studio session: the source         *)
(* registry (hooks/useCamera.ts, useSources), the stage selector and the   *)
(* audio mixing graph (components/Studio.tsx) and the frame compositor     *)
(* (components/VideoPreview.tsx).                                          *)
(*                                                                         *)
(* React scheduling: a handler that sets state causes a render; the        *)
(* passive effects of that render (RunEffects) are flushed before the next *)
(* state update is rendered.  The only handler that sets two pieces of     *)
(* state in a row is the init effect (setSources inside addCamera, then    *)
(* setActiveSources), which may or may not be batched into one render.     *)
(***************************************************************************)
EXTENDS Integers, Sequences, FiniteSets, TLC

\* ---------------------------------------------------------------- bounds
MaxSources == 2     \* sources in the registry at the same time
MaxStreams == 3     \* media streams acquired in one session (adds + updates)
MaxTaps == 3        \* audio taps created in one session
MaxItemsLen == 4    \* characters in the items string of a bullet list

\* ------------------------------------------------------- program constants
MaxStage == 2       \* "Limit to a maximum of 2 active sources."
CanvasWidth == 1280
CanvasHeight == 720
HaveFutureData == 3 \* video.readyState < 3: no frame to draw
CameraWidth == 1280 \* getUserMedia: width: { ideal: 1280 }
CameraHeight == 720 \* getUserMedia: height: { ideal: 720 }

SourceTypes == {"camera", "screen", "guest"}
Compositors == {"current", "rework"}
LayoutModes == {"solo", "pip", "side-by-side", "hero-below",
                "split-vertical", "cinematic", "sidebar"}

VARIABLES
    sources,          \* useSources: const [sources, setSources]
    streams,          \* every MediaStream acquired so far, by stream number
    activeSources,    \* Studio: const [activeSources, setActiveSources]
    layout,           \* Studio: const [layout, setLayout]
    audioContextRef,  \* 0 = null, else the number of the AudioContext
    contextsCreated,  \* how many AudioContexts (and destinations) were made
    connectedNodes,   \* connectedAudioSourcesRef: source id -> tap number (0 = no entry)
    taps,             \* the MediaStreamAudioSourceNodes connected to a destination
    tapsCreated,      \* how many MediaStreamAudioSourceNodes were made
    mixTrackLive,     \* readyState of destination.stream's audio track is "live"
    composedStream,   \* Studio: const [composedStream, setComposedStream]
    pending,          \* state changes rendered but whose effects have not run yet
    initPc,           \* position of the async init() of the init effect
    defaultCam,       \* init(): const defaultCam = await addCamera() (0 = not yet)
    updating,         \* source id of an updateCamera awaiting getUserMedia (0 = none)
    compositor,       \* which VideoPreview the build has: "current" or "rework"
    videoElements,    \* videoElementsRef: source id -> hidden <video> element
    blurredSources,   \* blurredSourcesRef: ids that have a blurred canvas ("rework")
    frame,            \* what the last renderCanvas() drew on the canvas
    settings,         \* Studio: const [overlaySettings, setOverlaySettings]
    assets,           \* logoImgRef, overlayImageRef, overlayVideoRef: load state
    tickerX,          \* tickerXRef: the horizontal offset of the ticker text
    frameCallbacks,   \* requestAnimationFrame callbacks of render loops not yet run
    mounted,          \* the Studio (and its VideoPreview) is on the page
    countdownTime,    \* Studio: const [countdownTime, setCountdownTime]
    countdownInterval,\* the setInterval of countdownIntervalRef is active
    blurLoops,        \* the processFrames loops that are alive ("rework")
    recorder          \* useRecording: mediaRecorderRef and isRecording

vars == <<sources, streams, activeSources, layout, audioContextRef,
          contextsCreated, connectedNodes, taps, tapsCreated, mixTrackLive,
          composedStream, pending, initPc, defaultCam, updating,
          compositor, videoElements, blurredSources, frame,
          settings, assets, tickerX, frameCallbacks, mounted,
          countdownTime, countdownInterval, recorder, blurLoops>>

\* The state of the compositor
renderVars == <<compositor, videoElements, blurredSources, frame, blurLoops>>

\* The overlays and the render loop
overlayVars == <<settings, assets, tickerX, frameCallbacks, mounted,
                 countdownTime, countdownInterval, recorder>>

Ids == 1..MaxStreams

\* ------------------------------------------------------------- helpers
Range(s) == {s[i] : i \in DOMAIN s}

\* prev.includes(id)
Includes(s, id) == \E i \in DOMAIN s : s[i] = id

\* prev.filter(x => x !== id)
Without(s, id) == SelectSeq(s, LAMBDA x : x # id)

\* sources.find(s => s.id === id): index of the first match, 0 when none
FindIndex(srcs, id) ==
    IF \E i \in DOMAIN srcs : srcs[i].id = id
    THEN CHOOSE i \in DOMAIN srcs :
            /\ srcs[i].id = id
            /\ \A j \in 1..(i - 1) : srcs[j].id # id
    ELSE 0

\* source.stream.getAudioTracks().length > 0
HasAudio(src) == streams[src.stream].audio > 0

\* stream.getTracks().forEach(track => track.stop())
StopTracks(strs, n) == [strs EXCEPT ![n].stopped = TRUE]

\* sources.forEach(source => source.stream.getTracks().forEach(track => track.stop()))
RECURSIVE StopAllTracks(_, _)
StopAllTracks(strs, srcs) ==
    IF srcs = << >> THEN strs
    ELSE StopAllTracks(StopTracks(strs, Head(srcs).stream), Tail(srcs))

\* The sources that the unmount cleanup of useSources reads: the effect has
\* the dependency list [] and its cleanup is the closure of the first
\* render, in which sources is the initial state of useState<Source[]>([])
FirstRenderSources == << >>

\* The AudioContexts on which close() has been called: the Studio calls it
\* nowhere, the cleanup of the audio effect stops the tracks of finalStream
\* and nothing else
ClosedContexts == {}

\* A processFrames loop of the rework's blur effect (deps [sources]): gen
\* tells the loop of the effect's last run ("current") from the loops of
\* earlier runs ("stale"), pc is "scheduled" while a
\* requestAnimationFrame(processFrames) is pending and "awaiting" while
\* segmentation.send is awaited; sending is whether the run found a camera
\* to send.  The awaits of one run of processFrames are taken together, and
\* stale loops in the same position are not told apart.
RunProcessFrames(gen, sending) ==
    [gen |-> gen, pc |-> IF sending THEN "awaiting" ELSE "scheduled"]

\* The loop of a mounted VideoPreview none of whose sources asks for blur
IdleLoops(build) ==
    IF build = "rework" THEN {RunProcessFrames("current", FALSE)} ELSE {}

\* The cleanup of the blur effect: cancelAnimationFrame(animationFrameId).
\* animationFrameId is assigned after the awaits of processFrames, so during
\* an await it is the id of the callback that is running (or undefined) and
\* nothing is cancelled.
CancelledLoops(loops) ==
    {[l EXCEPT !.gen = "stale"] :
        l \in {k \in loops : ~(k.gen = "current" /\ k.pc = "scheduled")}}

\* The cameras asking for blur, as the loop of this render will see them
BlurIds(srcs) ==
    {srcs[i].id : i \in {j \in DOMAIN srcs : /\ srcs[j].type = "camera"
                                             /\ srcs[j].backgroundBlur}}

\* The tokens of the renders that have a new sources list
SourcesTokens == {"mount", "add", "remove", "mute", "update", "blur"}

\* useRecording before startRecording: mediaRecorderRef is null, which reads
\* as an inactive recorder; isRecording is false.  videoLive is the
\* readyState of the canvas video track of the stream the recorder was made
\* with; its audio track is the track of the mix destination.
NoRecorder == [state |-> "inactive", isRecording |-> FALSE, videoLive |-> FALSE]

\* The audio effect's cleanup stops the tracks of the finalStream of its run,
\* the stream startRecording handed to new MediaRecorder(stream): the canvas
\* track of that stream ends with the mix track, and a MediaRecorder whose
\* tracks have all ended stops recording and queues its stop event.
AfterCleanup(rec, cleanup) ==
    IF ~cleanup THEN rec
    ELSE [rec EXCEPT !.videoLive = FALSE,
                     !.state = IF @ = "recording" THEN "ended" ELSE @]

\* the getUserMedia / getDisplayMedia result: a fresh live stream
NewStream(audio) == [audio |-> audio, enabled |-> TRUE, stopped |-> FALSE]

\* a source id without a hidden <video> element
NoVideo == [present |-> FALSE, srcObject |-> 0, readyState |-> 0,
            videoWidth |-> 0, videoHeight |-> 0]

\* the canvas before the first renderCanvas()
BlankFrame == [rendered |-> FALSE, drawable |-> << >>, ops |-> << >>,
               reads |-> {}, error |-> FALSE, loop |-> "none", items |-> << >>,
               clock |-> ""]

\* ---------------------------------------------------------- overlay settings
\* Object URLs of uploaded files (0 stands for null)
Urls == 1..4

\* URL.createObjectURL(file): a URL no setting and no element holds
NewUrl(used) == CHOOSE u \in Urls : u \notin used

\* The procedural overlays offered by the Brand tab
ProceduralStyles == {"geometric", "wave", "vignette"}

\* OverlaySettings['overlay']['type']
OverlayTypes == {"procedural", "image", "video"}

\* The ticker texts, each standing for the width ctx.measureText gives it in
\* the ticker font (in pixels)
TickerTexts == {500, 140}

\* The text of the freestyle overlay: the default and one of blanks only
FreestyleTexts == {"Your Text Here", "   "}

\* text.trim()
Trim(text) == IF text = "   " THEN "" ELSE text

\* The colour filters: the defaults and a graded, grayscale picture
DefaultFilters ==
    [brightness |-> 100, contrast |-> 100, saturate |-> 100, grayscale |-> FALSE]

FilterSettings ==
    {DefaultFilters,
     [brightness |-> 150, contrast |-> 80, saturate |-> 100, grayscale |-> TRUE]}

\* The overlay settings of a new Studio
DefaultSettings ==
    [logo        |-> [show |-> TRUE, url |-> 0],
     banner      |-> [show |-> FALSE],
     lowerThird  |-> [show |-> FALSE],
     overlay     |-> [show |-> FALSE, style |-> "none", url |-> 0,
                      type |-> "procedural", size |-> 5],
     filters     |-> DefaultFilters,
     countdown   |-> [show |-> FALSE, duration |-> 5, running |-> FALSE],
     ticker      |-> [show |-> FALSE, text |-> 500],
     bulletLists |-> [lists |-> << >>, activeListId |-> 0, show |-> FALSE],
     textOverlay |-> [show |-> FALSE, text |-> "Your Text Here"]]

\* { ...prev[key], ...value }
Merge(old, value) == value @@ old

\* updateSetting(key, value) / the reducer's UPDATE_<KEY> case
updateSetting(prev, key, value) == [prev EXCEPT ![key] = Merge(@, value)]

\* handleLogoFileChange: updateSetting('logo', { url })
handleLogoFileChange(prev, url) == updateSetting(prev, "logo", [url |-> url])

\* The Remove button of the logo: UPDATE_LOGO { url: null }
removeLogo(prev) == updateSetting(prev, "logo", [url |-> 0])

\* handleOverlayFileChange: updateSetting('overlay', { url, type, show: true })
handleOverlayFileChange(prev, url, type) ==
    updateSetting(prev, "overlay", [url |-> url, type |-> type, show |-> TRUE])

\* applyProceduralOverlay(style)
applyProceduralOverlay(prev, style) ==
    updateSetting(prev, "overlay",
                  [style |-> style, show |-> TRUE, type |-> "procedural", url |-> 0])

\* clearOverlay
clearOverlay(prev) ==
    updateSetting(prev, "overlay", [style |-> "none", show |-> FALSE, url |-> 0])

\* The "show" switches of the logo, the banner, the lower third, the
\* countdown, the ticker and the freestyle text
toggleShow(prev, key) == updateSetting(prev, key, [show |-> ~prev[key].show])

\* ------------------------------------------------------- the loaded assets
\* An <img> or <video> created by useRef(document.createElement(...)): no src
\* yet ("empty"), fetching or decoding ("loading"), usable ("ready"), or the
\* load failed (the broken state of an image, an error on a video)
AssetStates == {"empty", "loading", "ready", "failed"}

NoAsset == [src |-> 0, state |-> "empty"]

\* element.src = url: a new URL starts a load
WithSrc(asset, url) ==
    IF asset.src = url THEN asset ELSE [src |-> url, state |-> "loading"]

\* HTMLImageElement.complete: true without a src, after a load and after a
\* failed load; false while the image is being fetched
ImageComplete(asset) == asset.state # "loading"

\* naturalWidth and naturalHeight are 0 unless the image is loaded
ImageHasSize(asset) == asset.state = "ready"

\* HTMLVideoElement.readyState of the overlay video
VideoReadyStateOf(asset) == IF asset.state = "ready" THEN 4 ELSE 0

\* The effect that loads the uploaded files (deps logo.url, overlay.url,
\* overlay.type)
AssetsAfterEffect(s, a) ==
    [logo         |-> IF s.logo.url # 0 THEN WithSrc(a.logo, s.logo.url)
                      ELSE a.logo,
     overlayVideo |-> IF s.overlay.url # 0 /\ s.overlay.type = "video"
                      THEN WithSrc(a.overlayVideo, s.overlay.url)
                      ELSE a.overlayVideo,
     overlayImage |-> IF s.overlay.url # 0 /\ s.overlay.type # "video"
                         /\ s.overlay.type = "image"
                      THEN WithSrc(a.overlayImage, s.overlay.url)
                      ELSE a.overlayImage]

\* ------------------------------------------------------------ initial state
\* The Studio component has rendered once; none of its effects has run yet.
Init ==
    /\ sources = << >>
    /\ streams = << >>
    /\ activeSources = << >>
    /\ layout = "solo"
    /\ audioContextRef = 0
    /\ contextsCreated = 0
    /\ connectedNodes = [i \in Ids |-> 0]
    /\ taps = {}
    /\ tapsCreated = 0
    /\ mixTrackLive = FALSE
    /\ composedStream = 0
    /\ pending = {"mount"}
    /\ initPc = "idle"
    /\ defaultCam = 0
    /\ updating = 0
    /\ compositor \in Compositors
    /\ videoElements = [id \in Ids |-> NoVideo]
    /\ blurredSources = {}
    /\ blurLoops = {}
    /\ frame = BlankFrame
    /\ settings = DefaultSettings
    /\ assets = [logo |-> NoAsset, overlayImage |-> NoAsset,
                 overlayVideo |-> NoAsset]
    /\ tickerX = 0
    /\ frameCallbacks = {}
    /\ mounted = TRUE
    /\ countdownTime = settings.countdown.duration * 60
    /\ countdownInterval = FALSE
    /\ recorder = NoRecorder

\* The audio graph is the same in both builds of the compositor; it is
\* explored in the build of VideoPreview.tsx.
InitStudio == Init /\ compositor = "current"

\* No render is waiting for its effects and no continuation is about to run:
\* the next event handler may run.
Idle == pending = {} /\ initPc # "resolved" /\ mounted

\* ------------------------------------------------------ the source registry
\* setSources(prev => [...prev, newSource]) with a stream just acquired
AppendSource(type, audio) ==
    LET n == Len(streams) + 1 IN
    /\ streams' = Append(streams, NewStream(audio))
    /\ sources' = Append(sources, [id |-> n, type |-> type, stream |-> n,
                                      isMuted |-> FALSE,
                                      backgroundBlur |-> FALSE])

\* useSources.removeSource: the updater stops the tracks of the source found
\* and filters it out of the list
RemovedStreams(id) ==
    LET i == FindIndex(sources, id) IN
    IF i # 0 THEN StopTracks(streams, sources[i].stream) ELSE streams

RemovedSources(id) == SelectSeq(sources, LAMBDA s : s.id # id)

\* useSources.toggleMute: the updater maps over the list
\* (track.enabled = !newMutedState on the audio tracks of the matching source)
MutedStreams(id) ==
    [n \in DOMAIN streams |->
        IF \E i \in DOMAIN sources : sources[i].id = id /\ sources[i].stream = n
        THEN LET newMutedState == ~sources[FindIndex(sources, id)].isMuted
             IN  [streams[n] EXCEPT !.enabled = ~newMutedState]
        ELSE streams[n]]

MutedSources(id) ==
    [i \in DOMAIN sources |->
        IF sources[i].id = id
        THEN [sources[i] EXCEPT !.isMuted = ~sources[i].isMuted]
        ELSE sources[i]]

\* addCamera() from the add-source modal, getUserMedia resolved
AddCamera ==
    /\ Idle
    /\ Len(streams) < MaxStreams
    /\ Len(sources) < MaxSources
    /\ AppendSource("camera", 1)
    /\ pending' = {"add"}
    /\ UNCHANGED <<activeSources, layout, audioContextRef, contextsCreated,
                   connectedNodes, taps, tapsCreated, mixTrackLive,
                   composedStream, initPc, defaultCam, updating, renderVars,
                   overlayVars>>

\* Studio.addGuestSource: addCamera(), then the returned object (the one in
\* the list) gets type 'guest'
AddGuestSource ==
    /\ Idle
    /\ Len(streams) < MaxStreams
    /\ Len(sources) < MaxSources
    /\ AppendSource("guest", 1)
    /\ pending' = {"add"}
    /\ UNCHANGED <<activeSources, layout, audioContextRef, contextsCreated,
                   connectedNodes, taps, tapsCreated, mixTrackLive,
                   composedStream, initPc, defaultCam, updating, renderVars,
                   overlayVars>>

\* addScreenShare(): getDisplayMedia resolved; the user may or may not have
\* shared audio
AddScreenShare ==
    /\ Idle
    /\ Len(streams) < MaxStreams
    /\ Len(sources) < MaxSources
    /\ \E audio \in {0, 1} : AppendSource("screen", audio)
    /\ pending' = {"add"}
    /\ UNCHANGED <<activeSources, layout, audioContextRef, contextsCreated,
                   connectedNodes, taps, tapsCreated, mixTrackLive,
                   composedStream, initPc, defaultCam, updating, renderVars,
                   overlayVars>>

\* The remove button of a source card, or videoTrack.onended of a screen share
RemoveSource ==
    /\ Idle
    /\ \E i \in DOMAIN sources :
          /\ streams' = RemovedStreams(sources[i].id)
          /\ sources' = RemovedSources(sources[i].id)
    /\ pending' = {"remove"}
    /\ UNCHANGED <<activeSources, layout, audioContextRef, contextsCreated,
                   connectedNodes, taps, tapsCreated, mixTrackLive,
                   composedStream, initPc, defaultCam, updating, renderVars,
                   overlayVars>>

\* The mute button of a source card (shown when the source has audio)
ToggleMute ==
    /\ Idle
    /\ \E i \in DOMAIN sources :
          /\ HasAudio(sources[i])
          /\ streams' = MutedStreams(sources[i].id)
          /\ sources' = MutedSources(sources[i].id)
    /\ pending' = {"mute"}
    /\ UNCHANGED <<activeSources, layout, audioContextRef, contextsCreated,
                   connectedNodes, taps, tapsCreated, mixTrackLive,
                   composedStream, initPc, defaultCam, updating, renderVars,
                   overlayVars>>

\* Studio.handleCameraSettingsChange: the first camera-type source is updated
UpdateCameraStart ==
    /\ Idle
    /\ updating = 0
    /\ \E i \in DOMAIN sources :
          /\ sources[i].type = "camera"
          /\ \A j \in 1..(i - 1) : sources[j].type # "camera"
          /\ updating' = sources[i].id
    /\ UNCHANGED <<sources, streams, activeSources, layout, audioContextRef,
                   contextsCreated, connectedNodes, taps, tapsCreated,
                   mixTrackLive, composedStream, pending, initPc, defaultCam,
                   renderVars,
                   overlayVars>>

\* useSources.updateCamera after getUserMedia resolved: the updater stops the
\* old stream and puts the new one in the source, when the source is still there
UpdatedStreams(id) ==
    LET i == FindIndex(sources, id)
        withNew == Append(streams, NewStream(1)) IN
    IF i # 0 THEN StopTracks(withNew, sources[i].stream) ELSE withNew

UpdatedSources(id) ==
    [i \in DOMAIN sources |->
        IF i = FindIndex(sources, id)
        THEN [sources[i] EXCEPT !.stream = Len(streams) + 1]
        ELSE sources[i]]

UpdateCameraResolve ==
    /\ Idle
    /\ updating # 0
    /\ Len(streams) < MaxStreams
    /\ streams' = UpdatedStreams(updating)
    /\ sources' = UpdatedSources(updating)
    /\ updating' = 0
    /\ pending' = {"update"}
    /\ UNCHANGED <<activeSources, layout, audioContextRef, contextsCreated,
                   connectedNodes, taps, tapsCreated, mixTrackLive,
                   composedStream, initPc, defaultCam, renderVars,
                   overlayVars>>

\* getUserMedia rejected: updateCamera returns null
UpdateCameraReject ==
    /\ Idle
    /\ updating # 0
    /\ updating' = 0
    /\ UNCHANGED <<sources, streams, activeSources, layout, audioContextRef,
                   contextsCreated, connectedNodes, taps, tapsCreated,
                   mixTrackLive, composedStream, pending, initPc, defaultCam,
                   renderVars,
                   overlayVars>>

\* ------------------------------------------------------- the stage selector
\* Variant: the stage has no size limit.
toggleStageUnlimited(prev, sourceId) ==
    IF Includes(prev, sourceId) THEN Without(prev, sourceId)
    ELSE Append(prev, sourceId)

\* Studio.toggleStagePresence: the setActiveSources updater
toggleStagePresence(prev, sourceId) ==
    IF Includes(prev, sourceId) THEN Without(prev, sourceId)
    ELSE IF Len(prev) < MaxStage THEN Append(prev, sourceId)
    ELSE prev

\* The stage button of a source card; React skips the render when the updater
\* returns the previous list
ToggleStagePresence ==
    /\ Idle
    /\ \E i \in DOMAIN sources :
          activeSources' = toggleStagePresence(activeSources, sources[i].id)
    /\ pending' = IF activeSources' = activeSources THEN {} ELSE {"stage"}
    /\ UNCHANGED <<sources, streams, layout, audioContextRef,
                   contextsCreated, connectedNodes, taps, tapsCreated,
                   mixTrackLive, composedStream, initPc, defaultCam,
                   updating, renderVars,
                   overlayVars>>

\* The layout buttons: all but solo are disabled unless exactly 2 ids are staged
SetLayout ==
    /\ Idle
    /\ \E l \in LayoutModes :
          /\ l # layout
          /\ l = "solo" \/ Len(activeSources) = 2
          /\ layout' = l
    /\ pending' = {"layout"}
    /\ UNCHANGED <<sources, streams, activeSources, audioContextRef,
                   contextsCreated, connectedNodes, taps, tapsCreated,
                   mixTrackLive, composedStream, initPc, defaultCam,
                   updating, renderVars,
                   overlayVars>>

\* ------------------------------------------------- the audio mixing graph
\* Variant: the context and destination are made on every pass.
NeedsAudioInitAlways(ref) == TRUE

\* if (!audioContextRef.current) { new AudioContext(); createMediaStreamDestination() }
NeedsAudioInit(ref) == ref = 0

\* Variant: every pass tears the whole graph down and rebuilds it.
ShouldDisconnectAll(active, sourceId) == TRUE

\* 1. Disconnect sources that are no longer active:
\*    connectedNodes.forEach((node, sourceId) => { if (!activeSources.includes(sourceId)) ... })
ShouldDisconnect(active, sourceId) == ~Includes(active, sourceId)

\* node.disconnect(); connectedNodes.delete(sourceId)
DisconnectInactive(nodes, tps, active) ==
    LET gone == {id \in Ids : nodes[id] # 0 /\ ShouldDisconnect(active, id)} IN
    [nodes |-> [id \in Ids |-> IF id \in gone THEN 0 ELSE nodes[id]],
     taps  |-> {t \in tps : \A id \in gone : nodes[id] # t.inst}]

\* Variant: muting is done on the graph, a muted source gets no tap.
ShouldConnectUnmuted(nodes, sourceId) ==
    /\ nodes[sourceId] = 0
    /\ FindIndex(sources, sourceId) # 0
    /\ HasAudio(sources[FindIndex(sources, sourceId)])
    /\ ~sources[FindIndex(sources, sourceId)].isMuted

\* 2. Connect new active sources with audio:
\*    if (!connectedNodes.has(sourceId)) { const source = sources.find(...);
\*       if (source && source.stream.getAudioTracks().length > 0) ... }
ShouldConnect(nodes, sourceId) ==
    /\ nodes[sourceId] = 0
    /\ FindIndex(sources, sourceId) # 0
    /\ HasAudio(sources[FindIndex(sources, sourceId)])

\* createMediaStreamSource(source.stream); connect(destination); connectedNodes.set(...)
RECURSIVE ConnectActive(_, _, _, _, _)
ConnectActive(nodes, tps, made, active, dest) ==
    IF active = << >> THEN [nodes |-> nodes, taps |-> tps, made |-> made]
    ELSE LET sourceId == Head(active) IN
         IF ShouldConnect(nodes, sourceId)
         THEN LET mediaStreamSource ==
                    [inst |-> made + 1, src |-> sourceId,
                     stream |-> sources[FindIndex(sources, sourceId)].stream,
                     dest |-> dest]
              IN ConnectActive([nodes EXCEPT ![sourceId] = made + 1],
                               tps \cup {mediaStreamSource}, made + 1,
                               Tail(active), dest)
         ELSE ConnectActive(nodes, tps, made, Tail(active), dest)

\* The cleanup of the previous run of the audio effect:
\*    finalStream.getTracks().forEach(t => t.stop())
\* finalStream holds the destination's own audio track, so stopping the
\* tracks of finalStream ends that track.
MixTrackAfterCleanup(composed, live) == IF composed # 0 THEN FALSE ELSE live

\* The whole audio effect: cleanup of the previous run, lazy init, steps 1-3.
Reconciled ==
    LET init    == NeedsAudioInit(audioContextRef)
        ctx     == IF init THEN contextsCreated + 1 ELSE audioContextRef
        cleaned == MixTrackAfterCleanup(composedStream, mixTrackLive)
        step1   == DisconnectInactive(connectedNodes, taps, activeSources)
        step2   == ConnectActive(step1.nodes, step1.taps, tapsCreated,
                                 activeSources, ctx)
    IN [ctx |-> ctx,
        created |-> IF init THEN contextsCreated + 1 ELSE contextsCreated,
        mixLive |-> IF init THEN TRUE ELSE cleaned,
        nodes |-> step2.nodes,
        taps |-> step2.taps,
        made |-> step2.made,
        composed |-> ctx]

\* VideoPreview's effect for the hidden <video> elements (deps [sources]):
\* one element per source, srcObject set to the source's stream (which
\* restarts loading), the elements of removed sources dropped.
SyncedVideoElements ==
    [id \in Ids |->
        LET i == FindIndex(sources, id) IN
        IF i = 0 THEN NoVideo
        ELSE IF videoElements[id].present
                /\ videoElements[id].srcObject = sources[i].stream
             THEN videoElements[id]
             ELSE [present |-> TRUE, srcObject |-> sources[i].stream,
                   readyState |-> 0, videoWidth |-> 0, videoHeight |-> 0]]

\* init(): await addCamera() resolved with the default camera
InitCameraResolve ==
    /\ initPc = "awaiting"
    /\ pending = {}
    /\ Len(streams) < MaxStreams
    /\ Len(sources) < MaxSources
    /\ defaultCam' = Len(streams) + 1
    /\ AppendSource("camera", 1)
    /\ initPc' = "resolved"
    /\ pending' = {"add"}
    /\ UNCHANGED <<activeSources, layout, audioContextRef, contextsCreated,
                   connectedNodes, taps, tapsCreated, mixTrackLive,
                   composedStream, updating, renderVars,
                   overlayVars>>

\* init(): addCamera() returned null (getUserMedia rejected)
InitCameraReject ==
    /\ initPc = "awaiting"
    /\ pending = {}
    /\ initPc' = "done"
    /\ UNCHANGED <<sources, streams, activeSources, layout, audioContextRef,
                   contextsCreated, connectedNodes, taps, tapsCreated,
                   mixTrackLive, composedStream, pending, defaultCam,
                   updating, renderVars,
                   overlayVars>>

\* init(): if (defaultCam) setActiveSources([defaultCam.id]); runs right after
\* the await, in the same render as the setSources or in the next one
InitStageDefault ==
    /\ initPc = "resolved"
    /\ activeSources' = <<defaultCam>>
    /\ initPc' = "done"
    /\ defaultCam' = 0
    /\ pending' = pending \cup {"stage"}
    /\ UNCHANGED <<sources, streams, layout, audioContextRef,
                   contextsCreated, connectedNodes, taps, tapsCreated,
                   mixTrackLive, composedStream, updating, renderVars,
                   overlayVars>>

\* ------------------------------------------------------ the frame compositor
\* Lengths on the canvas are in tenths of a pixel, so that the fractions of
\* the canvas size the code uses (cw * 0.015, ...) stay integers.
cw == CanvasWidth * 10
ch == CanvasHeight * 10

\* HTMLMediaElement.readyState: HAVE_NOTHING .. HAVE_ENOUGH_DATA
ReadyStates == {0, 2, HaveFutureData, 4}

\* drawableSources[k] of a k past the end: undefined
Undefined == [id |-> 0, type |-> "undefined", image |-> "undefined",
              width |-> 0, height |-> 0]

\* The { source, image } pair of a source whose image is its <video> element
VideoItem(elements, src) ==
    [id |-> src.id, type |-> src.type, image |-> "video",
     width |-> elements[src.id].videoWidth,
     height |-> elements[src.id].videoHeight]

\* The { source, image } pair of a source whose image is its blurred canvas
BlurredItem(src) ==
    [id |-> src.id, type |-> src.type, image |-> "blurred",
     width |-> CameraWidth, height |-> CameraHeight]

\* !(!video || video.readyState < 3)
VideoReady(elements, id) ==
    /\ elements[id].present
    /\ ~(elements[id].readyState < HaveFutureData)

\* getDrawableSource(source): the image to draw, Undefined for null.
\* VideoPreview.tsx: the video element when it is ready.  The rework: the
\* blurred canvas when the source asks for blur and one is cached, else the
\* video element when it is ready.
getDrawableSource(elements, src) ==
    IF compositor = "rework" /\ src.backgroundBlur /\ src.id \in blurredSources
    THEN BlurredItem(src)
    ELSE IF VideoReady(elements, src.id) THEN VideoItem(elements, src)
         ELSE Undefined

\* activeSources.map(id => sources.find(...)).filter(s => !!s)
\*              .map(s => ({source: s, image: getDrawableSource(s)}))
\*              .filter(item => !!item.image)
RECURSIVE drawableSourcesOf(_, _)
drawableSourcesOf(elements, active) ==
    IF active = << >> THEN << >>
    ELSE LET i    == FindIndex(sources, Head(active))
             rest == drawableSourcesOf(elements, Tail(active)) IN
         IF i = 0 THEN rest
         ELSE LET item == getDrawableSource(elements, sources[i]) IN
              IF item = Undefined THEN rest ELSE <<item>> \o rest

\* elements: videoElementsRef.current when the frame is drawn
drawableSources(elements) == drawableSourcesOf(elements, activeSources)

\* drawableSources[k]
ItemAt(items, k) == IF k \in DOMAIN items THEN items[k] ELSE Undefined

\* drawableSources.find(item => <item.source.type is one of types>): the
\* first match, Undefined when none
FindItem(items, types) ==
    IF \E k \in DOMAIN items : items[k].type \in types
    THEN items[CHOOSE k \in DOMAIN items :
                  /\ items[k].type \in types
                  /\ \A j \in 1..(k - 1) : items[j].type \notin types]
    ELSE Undefined

\* One drawing call on the canvas
Op(kind, id, x, y, w, h, fit, clip) ==
    [kind |-> kind, id |-> id, x |-> x, y |-> y, w |-> w, h |-> h,
     fit |-> fit, clip |-> clip]

\* ctx.fillStyle = '#000000'; ctx.fillRect(0, 0, cw, ch)
ClearOp == Op("clear", 0, 0, 0, cw, ch, "fill", "none")

\* drawSource(ctx, item, x, y, w, h, fit): screen shares are always contained
drawSource(item, x, y, w, h, fit) ==
    LET effectiveFit == IF item.type = "screen" THEN "contain" ELSE fit IN
    Op("source", item.id, x, y, w, h, effectiveFit, "none")

\* The placeholder: the slate fill and the prompt centred on the canvas
PlaceholderOps ==
    << Op("placeholder", 0, 0, 0, cw, ch, "fill", "none"),
       Op("prompt", 0, cw \div 2, ch \div 2, 0, 0, "center", "none") >>

\* const margin = cw * 0.015
margin == (cw * 15) \div 1000

\* layout === 'side-by-side'
SideBySideOps(item1, item2) ==
    << drawSource(item1, 0, 0, cw \div 2, ch, "contain"),
       drawSource(item2, cw \div 2, 0, cw \div 2, ch, "contain") >>

\* layout === 'sidebar': which item is the main content and which the inset.
\* VideoPreview.tsx looks for a screen and for a camera and falls back to
\* (item1, item2) for both when either is missing; the rework falls back for
\* each separately and takes any non-screen source as the camera.
SidebarItems(items, item1, item2) ==
    LET screenFound == FindItem(items, {"screen"}) IN
    IF compositor = "current"
    THEN LET cameraFound == FindItem(items, {"camera"}) IN
         IF screenFound = Undefined \/ cameraFound = Undefined
         THEN [screenItem |-> item2, cameraItem |-> item1]
         ELSE [screenItem |-> screenFound, cameraItem |-> cameraFound]
    ELSE LET cameraFound == FindItem(items, SourceTypes \ {"screen"}) IN
         [screenItem |-> IF screenFound = Undefined THEN item2 ELSE screenFound,
          cameraItem |-> IF cameraFound = Undefined THEN item1 ELSE cameraFound]

SidebarOps(items, item1, item2) ==
    LET screenItem    == SidebarItems(items, item1, item2).screenItem
        cameraItem    == SidebarItems(items, item1, item2).cameraItem
        sidebarWidth  == (cw * 25) \div 100
        mainWidth     == cw - sidebarWidth
        padding       == sidebarWidth \div 10
        v_container_x == padding
        v_container_y == (ch * 5) \div 100
        v_container_w == sidebarWidth - (padding * 2)
        \* v_container_w / videoRatio, videoRatio 16/9 for an image without height
        v_container_h == IF cameraItem.height > 0 /\ cameraItem.width > 0
                         THEN (v_container_w * cameraItem.height) \div cameraItem.width
                         ELSE (v_container_w * 9) \div 16
        nameTagHeight == (ch * 4) \div 100
        nameTagY      == v_container_y + v_container_h
        main  == drawSource(screenItem, sidebarWidth, 0, mainWidth, ch, "contain")
        inset == drawSource(cameraItem, v_container_x, v_container_y,
                            v_container_w, v_container_h, "cover")
    IN IF compositor = "current"
          /\ (nameTagY + nameTagHeight) < (ch - v_container_y)
       THEN << main, inset,
               Op("nametag", cameraItem.id, v_container_x, nameTagY,
                  v_container_w, nameTagHeight, "fill", "none") >>
       ELSE << main, inset >>

\* layout === 'split-vertical'
SplitVerticalOps(item1, item2) ==
    << drawSource(item1, 0, 0, cw, ch \div 2, "contain"),
       drawSource(item2, 0, ch \div 2, cw, ch \div 2, "contain") >>

\* Variant: the hero takes the whole canvas and the strip is drawn over it.
HeroBelowOpsFullHero(item1, item2) ==
    LET heroHeight  == (ch * 8) \div 10
        belowHeight == ch - heroHeight
        belowWidth  == (belowHeight * 16) \div 9 IN
    << drawSource(item1, 0, 0, cw, ch, "cover"),
       drawSource(item2, (cw - belowWidth) \div 2, heroHeight,
                  belowWidth, belowHeight, "cover") >>

\* layout === 'hero-below'
HeroBelowOps(item1, item2) ==
    LET heroHeight  == (ch * 8) \div 10
        belowHeight == ch - heroHeight
        belowWidth  == (belowHeight * 16) \div 9 IN
    << drawSource(item1, 0, 0, cw, heroHeight, "cover"),
       drawSource(item2, (cw - belowWidth) \div 2, heroHeight,
                  belowWidth, belowHeight, "cover") >>

\* layout === 'cinematic': the second image is drawn with drawImageCover
\* itself, clipped to a circle, whatever the type of its source
CinematicOps(item1, item2) ==
    LET radius  == cw \div 10
        circleX == cw - radius - margin
        circleY == ch - radius - margin IN
    << drawSource(item1, 0, 0, cw, ch, "cover"),
       Op("source", item2.id, circleX - radius, circleY - radius,
          radius * 2, radius * 2, "cover", "circle") >>

\* else / default: "PIP layout"
PipOps(item1, item2) ==
    LET pipWidth  == (cw * 25) \div 100
        pipHeight == (pipWidth * 9) \div 16 IN
    << drawSource(item1, 0, 0, cw, ch, "cover"),
       drawSource(item2, cw - pipWidth - margin, ch - pipHeight - margin,
                  pipWidth, pipHeight, "cover") >>

\* The if / else-if chain (the rework: the switch) over the layout mode
PairOps(items, mode) ==
    LET item1 == ItemAt(items, 1)
        item2 == ItemAt(items, 2) IN
    IF mode = "side-by-side" THEN SideBySideOps(item1, item2)
    ELSE IF mode = "sidebar" THEN SidebarOps(items, item1, item2)
    ELSE IF mode = "split-vertical" THEN SplitVerticalOps(item1, item2)
    ELSE IF mode = "hero-below" THEN HeroBelowOps(item1, item2)
    ELSE IF mode = "cinematic" THEN CinematicOps(item1, item2)
    ELSE PipOps(item1, item2)

\* Variant: the one-source case is missing, one source goes to the pair code.
LayoutBranchNoSingle(n) == IF n = 0 THEN "placeholder" ELSE "pair"

\* if (drawableSources.length === 0) ... else if (drawableSources.length === 1) ... else
LayoutBranch(n) ==
    IF n = 0 THEN "placeholder" ELSE IF n = 1 THEN "single" ELSE "pair"

\* The slots of drawableSources a branch reads
SlotsRead(branch) ==
    IF branch = "placeholder" THEN {}
    ELSE IF branch = "single" THEN {1}
    ELSE {1, 2}

\* The source layer of a frame
LayoutOps(items, mode) ==
    LET branch == LayoutBranch(Len(items)) IN
    IF branch = "placeholder" THEN PlaceholderOps
    ELSE IF branch = "single"
         THEN << drawSource(ItemAt(items, 1), 0, 0, cw, ch, "contain") >>
         ELSE PairOps(items, mode)

\* --------------------------------------------------------- the 2D context
\* One call on the canvas context: a drawing call, an assignment to
\* ctx.filter, ctx.save(), ctx.restore(), or a call that throws
Cmd(c, op, value) == [cmd |-> c, op |-> op, value |-> value]

Draw(op) == Cmd("draw", op, "")

SetFilter(value) == Cmd("filter", ClearOp, value)

Save == Cmd("save", ClearOp, "")

Restore == Cmd("restore", ClearOp, "")

Throw == Cmd("throw", ClearOp, "InvalidStateError")

\* The context after a call: a drawing call is done under the filter in
\* effect, save() pushes the drawing state and restore() pops it
AfterCmd(ctx, c) ==
    CASE c.cmd = "draw" ->
            [ctx EXCEPT !.ops = Append(@, c.op @@ [filter |-> ctx.filter])]
      [] c.cmd = "filter" -> [ctx EXCEPT !.filter = c.value]
      [] c.cmd = "save" -> [ctx EXCEPT !.stack = Append(@, ctx.filter)]
      [] c.cmd = "restore" ->
            IF ctx.stack = << >> THEN ctx
            ELSE [ctx EXCEPT !.filter = ctx.stack[Len(ctx.stack)],
                             !.stack = SubSeq(@, 1, Len(@) - 1)]
      [] OTHER -> [ctx EXCEPT !.error = TRUE]

\* The calls of a function body in order; an exception ends the body
RECURSIVE RunCommands(_, _)
RunCommands(cmds, ctx) ==
    IF cmds = << >> \/ ctx.error THEN ctx
    ELSE RunCommands(Tail(cmds), AfterCmd(ctx, Head(cmds)))

\* The context at the start of a tick: every tick that ends leaves the
\* filter at 'none', the value of a new context
NewContext == [filter |-> "none", stack |-> << >>, ops |-> << >>, error |-> FALSE]

\* The value given to ctx.filter while the sources are drawn
FilterString(f) ==
    "brightness(" \o ToString(f.brightness) \o "%) contrast("
        \o ToString(f.contrast) \o "%) saturate(" \o ToString(f.saturate)
        \o "%) " \o (IF f.grayscale THEN "grayscale(100%)" ELSE "")

\* The calls of the source layer: the inset of the cinematic layout is drawn
\* between save() and restore(), which hold its circular clip
RECURSIVE LayoutCommands(_)
LayoutCommands(ops) ==
    IF ops = << >> THEN << >>
    ELSE (IF Head(ops).clip = "none" THEN << Draw(Head(ops)) >>
          ELSE << Save, Draw(Head(ops)), Restore >>)
         \o LayoutCommands(Tail(ops))

\* ------------------------------------------------------------ the overlays
\* The natural size of an uploaded picture or clip that has loaded
UploadedMediaSize == [width |-> 1920, height |-> 1080]

\* The uploaded full-screen overlay: the image when it has loaded, the video
\* when it has a frame, scaled to overlay.size of the canvas width and
\* centred.  The rework tests complete only, which is true of a broken image
\* too: its natural size is 0, and drawImage of a broken image throws
\* InvalidStateError in engines that look at the image before the (NaN)
\* numbers and returns silently in the others.
UploadedOverlayCommands(loaded, brokenThrows) ==
    LET o == settings.overlay
        image == loaded.overlayImage
        video == loaded.overlayVideo
        imageOk == IF compositor = "current"
                   THEN ImageComplete(image) /\ ImageHasSize(image)
                   ELSE ImageComplete(image)
        videoOk == VideoReadyStateOf(video) >= HaveFutureData
        media == IF compositor = "current"
                 THEN (IF o.type = "image" /\ imageOk THEN "image"
                       ELSE IF o.type = "video" /\ videoOk THEN "video"
                       ELSE "null")
                 ELSE (IF o.type = "video" /\ videoOk THEN "video"
                       ELSE IF o.type = "image" /\ imageOk THEN "image"
                       ELSE "null")
        w == (cw * o.size) \div 10
        h == (w * UploadedMediaSize.height) \div UploadedMediaSize.width
        drawn == Op("overlay", 0, (cw - w) \div 2, (ch - h) \div 2, w, h,
                    media, "none")
    IN IF ~(o.show /\ o.url # 0) \/ media = "null" THEN << >>
       ELSE IF media = "video" \/ ImageHasSize(image) THEN << Save, Draw(drawn), Restore >>
       ELSE IF image.state = "failed" /\ brokenThrows THEN << Save, Throw >>
       ELSE << Save, Restore >>

\* The procedural overlay: one of the vector recipes, between save() and
\* restore()
ProceduralOverlayCommands ==
    LET o == settings.overlay IN
    IF o.show /\ o.type = "procedural" /\ o.style # "none"
    THEN << Save >>
         \o (IF o.style \in ProceduralStyles
             THEN << Draw(Op("procedural", 0, 0, 0, cw, ch, o.style, "none")) >>
             ELSE << >>)
         \o << Restore >>
    ELSE << >>

\* The freestyle text, at the bottom left
FreestyleTextCommands ==
    IF settings.textOverlay.show /\ Trim(settings.textOverlay.text) # ""
    THEN << Draw(Op("text", 0, (cw * 2) \div 100, 0, 0, 0, "fill", "none")) >>
    ELSE << >>

\* The ticker: its bar along the bottom and the text at the offset tickerXRef
TickerCommands ==
    LET tickerHeight == (ch * 8) \div 100 IN
    IF settings.ticker.show
    THEN << Draw(Op("ticker", 0, tickerX * 10, ch - tickerHeight, cw,
                    tickerHeight, "fill", "none")) >>
    ELSE << >>

\* tickerXRef.current = tickerXRef.current < -textWidth ? cw : tickerXRef.current - 2
NextTickerXInclusive(x, textWidth) == IF x <= -textWidth THEN CanvasWidth ELSE x - 2

NextTickerX(x, textWidth) == IF x < -textWidth THEN CanvasWidth ELSE x - 2

\* The logo, top right, 7% of the canvas height
LogoCommands(loaded) ==
    LET logoHeight == (ch * 7) \div 100
        logoWidth == (logoHeight * UploadedMediaSize.width) \div UploadedMediaSize.height
        padding == (cw * 2) \div 100 IN
    IF /\ settings.logo.show
       /\ settings.logo.url # 0
       /\ ImageComplete(loaded.logo)
       /\ ImageHasSize(loaded.logo)
    THEN << Draw(Op("logo", 0, cw - logoWidth - padding, padding, logoWidth,
                    logoHeight, "image", "none")) >>
    ELSE << >>

\* activeList.items.split('\n'): the pieces between the newlines, the empty
\* ones included
RECURSIVE SplitLines(_, _)
SplitLines(text, line) ==
    IF text = << >> THEN << line >>
    ELSE IF Head(text) = "\n"
         THEN << line >> \o SplitLines(Tail(text), << >>)
         ELSE SplitLines(Tail(text), Append(line, Head(text)))

\* line.trim() === ''
TrimsToEmpty(line) == \A i \in DOMAIN line : line[i] = " "

\* const items = activeList.items.split('\n').filter(line => line.trim() !== '')
BulletItemsUnfiltered(text) == SplitLines(text, << >>)

BulletItems(text) ==
    SelectSeq(SplitLines(text, << >>), LAMBDA line : ~TrimsToEmpty(line))

\* bulletLists.lists.find(l => l.id === bulletLists.activeListId) found a list
HasActiveList(b) ==
    b.show /\ b.activeListId # 0 /\ b.activeListId \in DOMAIN b.lists

\* The active bullet list, top left: the box, the title and one line of text
\* per item
BulletListCommands ==
    LET b == settings.bulletLists
        m == (cw * 2) \div 100
        padding == (cw * 15) \div 1000
        titleSize == (ch * 35) \div 1000
        itemSize == (ch * 3) \div 100
        n == IF HasActiveList(b) THEN Len(BulletItems(b.lists[b.activeListId]))
             ELSE 0
        totalHeight == padding * 2 + titleSize
                       + (IF n > 0 THEN padding \div 2 + (n * itemSize * 14) \div 10
                          ELSE 0) IN
    IF HasActiveList(b)
    THEN << Draw(Op("bulletList", b.activeListId, m, m, (cw * 35) \div 100,
                    totalHeight, "fill", "none")) >>
    ELSE << >>

\* The lines that items.forEach(item => ctx.fillText(item, ...)) wrote
ItemsDrawn(ops) ==
    IF \E k \in DOMAIN ops : ops[k].kind = "bulletList"
    THEN BulletItems(settings.bulletLists.lists[settings.bulletLists.activeListId])
    ELSE << >>

\* The banner along the bottom
BannerCommands ==
    LET bannerHeight == (ch * 12) \div 100 IN
    IF settings.banner.show
    THEN << Draw(Op("banner", 0, 0, ch - bannerHeight, cw, bannerHeight,
                    "fill", "none")) >>
    ELSE << >>

\* The lower third: the title box on the subtitle box, bottom left
LowerThirdCommands ==
    LET m == (cw * 2) \div 100
        totalHeight == (ch * 6) \div 100 + (ch * 4) \div 100 IN
    IF settings.lowerThird.show
    THEN << Draw(Op("lowerThird", 0, m, ch - m - totalHeight, (cw * 4) \div 10,
                    totalHeight, "fill", "none")) >>
    ELSE << >>

\* The countdown box in the middle of the canvas
CountdownCommands ==
    LET boxWidth == (cw * 5) \div 10
        boxHeight == (ch * 2) \div 10 IN
    IF settings.countdown.show
    THEN << Draw(Op("countdown", 0, (cw - boxWidth) \div 2, (ch - boxHeight) \div 2,
                    boxWidth, boxHeight, "fill", "none")) >>
    ELSE << >>

\* n.toString().padStart(2, '0')
PadStart2(n) == IF n >= 0 /\ n < 10 THEN "0" \o ToString(n) ELSE ToString(n)

\* formatTime: Math.floor((seconds % 3600) / 60) and seconds % 60, padded
formatTime(seconds) ==
    PadStart2((seconds % 3600) \div 60) \o ":" \o PadStart2(seconds % 60)

\* ctx.fillText(formatTime(countdownTime), ...) of the countdown section
ClockDrawn(ops) ==
    IF \E k \in DOMAIN ops : ops[k].kind = "countdown"
    THEN formatTime(countdownTime) ELSE ""

\* The overlay sections of renderCanvas in the order of the code, bottom to
\* top; the rework's drawOverlays has six of them
OverlayLayersLogoOverBanner ==
    IF compositor = "current"
    THEN << "overlay", "procedural", "text", "ticker", "bulletList",
            "banner", "logo", "lowerThird", "countdown" >>
    ELSE << "overlay", "ticker", "banner", "logo", "lowerThird", "countdown" >>

OverlayLayers ==
    IF compositor = "current"
    THEN << "overlay", "procedural", "text", "ticker", "logo", "bulletList",
            "banner", "lowerThird", "countdown" >>
    ELSE << "overlay", "ticker", "logo", "banner", "lowerThird", "countdown" >>

LayerCommands(layer, loaded, brokenThrows) ==
    CASE layer = "overlay" -> UploadedOverlayCommands(loaded, brokenThrows)
      [] layer = "procedural" -> ProceduralOverlayCommands
      [] layer = "text" -> FreestyleTextCommands
      [] layer = "ticker" -> TickerCommands
      [] layer = "logo" -> LogoCommands(loaded)
      [] layer = "bulletList" -> BulletListCommands
      [] layer = "banner" -> BannerCommands
      [] layer = "lowerThird" -> LowerThirdCommands
      [] OTHER -> CountdownCommands

RECURSIVE OverlayCommandsOf(_, _, _)
OverlayCommandsOf(layers, loaded, brokenThrows) ==
    IF layers = << >> THEN << >>
    ELSE LayerCommands(Head(layers), loaded, brokenThrows)
         \o OverlayCommandsOf(Tail(layers), loaded, brokenThrows)

\* ctx.filter = 'none' between the source layer and the overlays
FilterResetMissing == << >>

FilterReset == << SetFilter("none") >>

\* renderCanvas(): the black clear, the drawable list, the source layer under
\* the colour filter, the overlays.  A read past the end of the list gives
\* undefined, whose .source is a TypeError.  elements and loaded are the
\* hidden videos and the uploaded files as the refs hold them when the frame
\* is drawn.
renderCanvas(elements, loaded, brokenThrows) ==
    LET items == drawableSources(elements)
        reads == SlotsRead(LayoutBranch(Len(items)))
        cmds  == << Draw(ClearOp), SetFilter(FilterString(settings.filters)) >>
                 \o LayoutCommands(LayoutOps(items, layout))
                 \o (IF \E k \in reads : k \notin DOMAIN items
                     THEN << Throw >> ELSE << >>)
                 \o FilterReset
                 \o OverlayCommandsOf(OverlayLayers, loaded, brokenThrows)
        ctx   == RunCommands(cmds, NewContext) IN
    [rendered |-> TRUE,
     drawable |-> [k \in DOMAIN items |-> items[k].id],
     ops      |-> ctx.ops,
     reads    |-> reads,
     error    |-> ctx.error,
     loop     |-> "current",
     items    |-> ItemsDrawn(ctx.ops),
     clock    |-> ClockDrawn(ctx.ops)]

\* The ticker offset after a frame: a frame that drew the ticker moved it
TickerXAfter(f) ==
    IF \E k \in DOMAIN f.ops : f.ops[k].kind = "ticker"
    THEN NextTickerX(tickerX, settings.ticker.text)
    ELSE tickerX

\* requestAnimationFrame(loop) at the end of loop(): not reached when
\* renderCanvas threw
Rescheduled(callbacks, callback, f) ==
    IF f.error THEN callbacks \ {callback} ELSE callbacks \cup {callback}

\* One turn of the requestAnimationFrame loop: a pending callback runs
\* renderCanvas and asks for the next frame.  The loop runs the renderCanvas
\* of the last render whose effects have run.
Tick ==
    /\ pending = {}
    /\ \E callback \in frameCallbacks, brokenThrows \in BOOLEAN :
          /\ frame' = [renderCanvas(videoElements, assets, brokenThrows)
                          EXCEPT !.loop = callback]
          /\ tickerX' = TickerXAfter(frame')
          /\ frameCallbacks' = Rescheduled(frameCallbacks, callback, frame')
    /\ UNCHANGED <<sources, streams, activeSources, layout, audioContextRef,
                   contextsCreated, connectedNodes, taps, tapsCreated,
                   mixTrackLive, composedStream, pending, initPc, defaultCam,
                   updating, compositor, videoElements, blurredSources,
                   blurLoops, settings, assets, mounted, countdownTime,
                   countdownInterval,
                   recorder>>

\* The renders that give the audio effect new dependencies (sources or
\* activeSources); a render after a change of the settings or of the layout
\* does not
AudioTokens == {"mount", "add", "remove", "mute", "update", "blur", "stage"}

\* cancelAnimationFrame(animationFrameId) in the cleanup of the loop effect:
\* animationFrameId is the request the loop made last
cancelNothing(callbacks, id) == callbacks

cancelAnimationFrame(callbacks, id) == callbacks \ {id}

\* The callbacks left in the queue when a new loop starts belong to loops
\* that were stopped
LeftCallbacks(callbacks) ==
    IF cancelAnimationFrame(callbacks, "current") = {} THEN {} ELSE {"stale"}

\* The countdown effect (deps [running, countdownTime]), after the cleanup of
\* its last run has cleared the interval: a new interval while the countdown
\* runs and time is left
CountdownEffectInterval(s, time) == s.countdown.running /\ time > 0

CountdownEffectSettingsKeepsRunning(s, time) == s

\* else if (countdownTime === 0 && running): running is set to false
CountdownEffectSettings(s, time) ==
    IF ~(s.countdown.running /\ time > 0) /\ time = 0 /\ s.countdown.running
    THEN [s EXCEPT !.countdown.running = FALSE]
    ELSE s

\* The ids whose hidden <video> has a frame: video && video.readyState >= 3
ReadyVideos(elements) == {id \in Ids : VideoReady(elements, id)}

\* The rework's blur effect (deps [sources]) in the effects of a render: the
\* cleanup of its last run, then processFrames() up to its first await
BlurEffect ==
    IF compositor = "rework" /\ pending \cap SourcesTokens # {}
    THEN CancelledLoops(blurLoops)
            \cup {RunProcessFrames("current",
                      BlurIds(sources)
                         \cap ReadyVideos(SyncedVideoElements) # {})}
    ELSE blurLoops

\* The passive effects of the last render, children first: VideoPreview's
\* hidden-video effect, its effect that loads the uploaded files, its render
\* loop effect (deps [renderCanvas], which is new after every change of the
\* sources, the stage, the layout or the settings: the cleanup cancels the
\* pending callback, then loop() draws a frame and asks for the next one),
\* Studio's init effect (on mount only), Studio's audio effect (deps
\* [sources, activeSources]) and Studio's countdown effect, whose setState
\* asks for another render.  An exception thrown by loop() escapes the
\* effect: no error boundary is above the Studio, so React takes the tree off
\* the page and the cleanups run.
RunEffects ==
    /\ pending # {}
    /\ mounted
    /\ LET audio == pending \cap AudioTokens # {}
           pass  == IF audio THEN Reconciled
                    ELSE [ctx |-> audioContextRef, created |-> contextsCreated,
                          mixLive |-> mixTrackLive, nodes |-> connectedNodes,
                          taps |-> taps, made |-> tapsCreated,
                          composed |-> composedStream]
       IN
       /\ pass.made <= MaxTaps
       /\ audioContextRef' = pass.ctx
       /\ contextsCreated' = pass.created
       /\ connectedNodes' = pass.nodes
       /\ taps' = pass.taps
       /\ tapsCreated' = pass.made
       /\ composedStream' = pass.composed
       /\ initPc' = IF "mount" \in pending /\ Len(sources) = 0
                    THEN "awaiting" ELSE initPc
       /\ videoElements' = SyncedVideoElements
       /\ assets' = AssetsAfterEffect(settings, assets)
       /\ UNCHANGED <<sources, streams, activeSources, layout, defaultCam,
                      updating, compositor, blurredSources, countdownTime>>
       /\ \E brokenThrows \in BOOLEAN :
             /\ frame' = renderCanvas(SyncedVideoElements,
                                      AssetsAfterEffect(settings, assets),
                                      brokenThrows)
             /\ tickerX' = TickerXAfter(frame')
             /\ frameCallbacks' =
                   IF frame'.error THEN {}
                   ELSE Rescheduled(LeftCallbacks(frameCallbacks), "current", frame')
             /\ mounted' = ~frame'.error
             /\ settings' = IF frame'.error THEN settings
                            ELSE CountdownEffectSettings(settings, countdownTime)
             /\ pending' = IF settings' # settings THEN {"settings"} ELSE {}
             /\ countdownInterval' =
                   (~frame'.error /\ CountdownEffectInterval(settings, countdownTime))
             /\ mixTrackLive' =
                   IF frame'.error
                   THEN MixTrackAfterCleanup(pass.composed, pass.mixLive)
                   ELSE pass.mixLive
             /\ recorder' =
                   AfterCleanup(recorder,
                                (audio /\ composedStream # 0) \/ frame'.error)
             /\ blurLoops' =
                   IF frame'.error THEN CancelledLoops(BlurEffect)
                   ELSE BlurEffect

\* The browser loads or stalls the stream of a hidden <video> (play() was
\* called when srcObject was set): readyState moves among the values above
\* 0, and the intrinsic size is known from HAVE_METADATA on.
VideoReadyStateChange ==
    /\ \E id \in Ids, r \in ReadyStates \ {0} :
          /\ videoElements[id].present
          /\ videoElements[id].readyState # r
          /\ videoElements' =
                [videoElements EXCEPT ![id] =
                    [@ EXCEPT !.readyState = r,
                              !.videoWidth = CameraWidth,
                              !.videoHeight = CameraHeight]]
    /\ UNCHANGED <<sources, streams, activeSources, layout, audioContextRef,
                   contextsCreated, connectedNodes, taps, tapsCreated,
                   mixTrackLive, composedStream, pending, initPc, defaultCam,
                   updating, compositor, blurredSources, frame, blurLoops,
                   overlayVars>>

\* toggleBackgroundBlur(id) of the registry, in the build whose compositor
\* blurs: the blur flag of a camera source is flipped (a new sources list)
ToggleBackgroundBlur ==
    /\ Idle
    /\ compositor = "rework"
    /\ \E i \in DOMAIN sources :
          /\ sources[i].type = "camera"
          /\ sources' = [sources EXCEPT ![i].backgroundBlur = ~@]
    /\ pending' = {"blur"}
    /\ UNCHANGED <<streams, activeSources, layout, audioContextRef,
                   contextsCreated, connectedNodes, taps, tapsCreated,
                   mixTrackLive, composedStream, initPc, defaultCam,
                   updating, renderVars,
                   overlayVars>>

\* processFrames sends the frame of a ready camera that asks for blur to the
\* segmentation, whose onResults caches a blurred canvas under the source id
BlurResult ==
    /\ pending = {}
    /\ compositor = "rework"
    /\ \E i \in DOMAIN sources :
          /\ sources[i].type = "camera"
          /\ sources[i].backgroundBlur
          /\ VideoReady(videoElements, sources[i].id)
          /\ sources[i].id \notin blurredSources
          /\ blurredSources' = blurredSources \cup {sources[i].id}
    /\ UNCHANGED <<sources, streams, activeSources, layout, audioContextRef,
                   contextsCreated, connectedNodes, taps, tapsCreated,
                   mixTrackLive, composedStream, pending, initPc, defaultCam,
                   updating, compositor, videoElements, frame, blurLoops,
                   overlayVars>>

\* What a run of processFrames finds to send.  The loop of the last run of
\* the effect iterates the current sources; a stale loop iterates the
\* sources of an earlier render, which are not kept: it may or may not find
\* a camera to send.
FindsFrames(l) ==
    IF l.gen = "current"
    THEN {BlurIds(sources) \cap ReadyVideos(videoElements) # {}}
    ELSE BOOLEAN

\* A requestAnimationFrame callback of a blur loop runs processFrames up to
\* its first await or its next request.  After the unmount the segmentation
\* is closed (segmentation.close() in the cleanup of its effect): whether
\* send() on it throws is left to the library, and a throw ends the loop.
ProcessFrames ==
    /\ pending = {}
    /\ \E l \in blurLoops, closedThrows \in BOOLEAN :
          /\ l.pc = "scheduled"
          /\ closedThrows => ~mounted
          /\ \E sending \in FindsFrames(l) :
                blurLoops' = IF closedThrows /\ sending
                             THEN blurLoops \ {l}
                             ELSE (blurLoops \ {l})
                                     \cup {RunProcessFrames(l.gen, sending)}
    /\ UNCHANGED <<sources, streams, activeSources, layout, audioContextRef,
                   contextsCreated, connectedNodes, taps, tapsCreated,
                   mixTrackLive, composedStream, pending, initPc, defaultCam,
                   updating, compositor, videoElements, blurredSources, frame,
                   overlayVars>>

\* An awaited segmentation.send settles: onResults has cached the blurred
\* canvas of the cameras sent (for the loop of the last run, the ready
\* cameras of the current sources that ask for blur; what a stale loop
\* caches is not kept) and processFrames goes on to
\* requestAnimationFrame(processFrames); a send on a closed segmentation may
\* reject instead, which ends the loop.
SendSettles ==
    /\ pending = {}
    /\ \E l \in blurLoops, rejected \in BOOLEAN :
          /\ l.pc = "awaiting"
          /\ rejected => ~mounted
          /\ blurredSources' =
                IF rejected \/ l.gen = "stale" THEN blurredSources
                ELSE blurredSources
                        \cup (BlurIds(sources) \cap ReadyVideos(videoElements))
          /\ blurLoops' =
                IF rejected THEN blurLoops \ {l}
                ELSE (blurLoops \ {l}) \cup {[l EXCEPT !.pc = "scheduled"]}
    /\ UNCHANGED <<sources, streams, activeSources, layout, audioContextRef,
                   contextsCreated, connectedNodes, taps, tapsCreated,
                   mixTrackLive, composedStream, pending, initPc, defaultCam,
                   updating, compositor, videoElements, frame,
                   overlayVars>>

\* The intrinsic sizes a camera stream can have: width and height are asked
\* for as ideal values only, so the device may give 4:3 or portrait video
CameraSizes == {[width |-> CameraWidth, height |-> CameraHeight],
                [width |-> 640, height |-> 480],
                [width |-> CameraHeight, height |-> CameraWidth]}

\* The intrinsic sizes of a screen share: a whole screen, or a window as
\* narrow and tall as the user made it
ScreenSizes == {[width |-> 1920, height |-> 1080],
                [width |-> 400, height |-> 1200]}

\* The stream of a loaded hidden <video> changes its intrinsic size (the
\* device turns, the shared window is resized): videoWidth and videoHeight
\* follow
VideoResize ==
    /\ \E i \in DOMAIN sources :
          \E size \in IF sources[i].type = "screen" THEN ScreenSizes
                      ELSE CameraSizes :
             LET video == videoElements[sources[i].id] IN
             /\ video.present
             /\ video.readyState > 0
             /\ <<video.videoWidth, video.videoHeight>> # <<size.width, size.height>>
             /\ videoElements' =
                   [videoElements EXCEPT ![sources[i].id] =
                       [@ EXCEPT !.videoWidth = size.width,
                                 !.videoHeight = size.height]]
    /\ UNCHANGED <<sources, streams, activeSources, layout, audioContextRef,
                   contextsCreated, connectedNodes, taps, tapsCreated,
                   mixTrackLive, composedStream, pending, initPc, defaultCam,
                   updating, compositor, blurredSources, frame, blurLoops,
                   overlayVars>>

\* ------------------------------------------------- the settings handlers
\* What a change of the settings leaves alone; the render it causes is
\* followed by the effects
studioVars == <<sources, streams, activeSources, layout, audioContextRef,
                contextsCreated, connectedNodes, taps, tapsCreated,
                mixTrackLive, composedStream, initPc, defaultCam, updating>>

SettingsChange(next) ==
    /\ Idle
    /\ next # settings
    /\ settings' = next
    /\ pending' = {"settings"}
    /\ UNCHANGED <<studioVars, renderVars, assets, tickerX, frameCallbacks,
                   mounted, countdownTime, countdownInterval,
                   recorder>>

\* The ids crypto.randomUUID() gives to bullet lists
BulletIds == {1, 2}

\* The characters typed into the items box of a list
ItemChars == {"a", "b", " ", "\n"}

\* The items strings of at most MaxItemsLen characters
ItemStrings == UNION {[1..n -> ItemChars] : n \in 0..MaxItemsLen}

\* handleSave: the list that is being edited gets the new data, a new list
\* is appended under a new id
WithList(lists, id, text) ==
    [l \in DOMAIN lists \cup {id} |-> IF l = id THEN text ELSE lists[l]]

\* A file is chosen in the logo upload
HandleLogoFileChange ==
    SettingsChange(handleLogoFileChange(
                      settings, NewUrl({settings.logo.url, assets.logo.src})))

\* The Remove button of the logo
RemoveLogo == settings.logo.url # 0 /\ SettingsChange(removeLogo(settings))

\* A picture or a clip is chosen in the overlay upload
HandleOverlayFileChange ==
    \E type \in OverlayTypes \ {"procedural"} :
       SettingsChange(handleOverlayFileChange(
                         settings,
                         NewUrl({settings.overlay.url, assets.overlayImage.src,
                                 assets.overlayVideo.src}),
                         type))

\* One of the procedural overlay buttons
ApplyProceduralOverlay ==
    \E style \in ProceduralStyles :
       SettingsChange(applyProceduralOverlay(settings, style))

\* The Clear Overlay button
ClearOverlay == SettingsChange(clearOverlay(settings))

\* The show buttons of the logo, the banner, the lower third, the countdown,
\* the ticker and the freestyle text
ToggleShow ==
    \E key \in {"logo", "banner", "lowerThird", "countdown", "ticker",
                "textOverlay"} :
       SettingsChange(toggleShow(settings, key))

\* The show button of the ticker
ToggleTicker == SettingsChange(toggleShow(settings, "ticker"))

\* The show button of the banner
ToggleBanner == SettingsChange(toggleShow(settings, "banner"))

\* The ticker text is edited
SetTickerText ==
    \E text \in TickerTexts :
       SettingsChange(updateSetting(settings, "ticker", [text |-> text]))

\* The freestyle text is edited
SetFreestyleText ==
    \E text \in FreestyleTexts :
       SettingsChange(updateSetting(settings, "textOverlay", [text |-> text]))

\* The sliders and the switch of the colour filters
SetFilters ==
    \E f \in FilterSettings : SettingsChange(updateSetting(settings, "filters", f))

\* BulletListControls.handleSave of a new list
SaveBulletList ==
    \E id \in BulletIds, text \in ItemStrings :
       SettingsChange(updateSetting(settings, "bulletLists",
                         [lists |-> WithList(settings.bulletLists.lists, id, text)]))

\* BulletListControls.handleDelete
DeleteBulletList ==
    \E id \in DOMAIN settings.bulletLists.lists :
       SettingsChange(updateSetting(settings, "bulletLists",
                         [lists |-> [l \in DOMAIN settings.bulletLists.lists \ {id}
                                        |-> settings.bulletLists.lists[l]],
                          activeListId |->
                             IF settings.bulletLists.activeListId = id THEN 0
                             ELSE settings.bulletLists.activeListId]))

\* BulletListControls.handleToggleShow
ToggleBulletList ==
    \E id \in DOMAIN settings.bulletLists.lists :
       SettingsChange(updateSetting(settings, "bulletLists",
                         IF settings.bulletLists.show
                            /\ settings.bulletLists.activeListId = id
                         THEN [show |-> FALSE]
                         ELSE [activeListId |-> id, show |-> TRUE]))

\* The show button of the countdown
ToggleCountdown == SettingsChange(toggleShow(settings, "countdown"))

\* The minutes the duration input offers (min="1" max="60")
Durations == {1, 2, 60}

\* The Start / Pause button
ToggleCountdownRunning ==
    SettingsChange(updateSetting(settings, "countdown",
                      [running |-> ~settings.countdown.running]))

\* resetCountdown as a handler of the render whose settings are s: the
\* interval is cleared, running is set to false on the latest settings and
\* the time is set from the duration of s
resetCountdown(s, latest) ==
    /\ countdownInterval' = FALSE
    /\ settings' = updateSetting(latest, "countdown", [running |-> FALSE])
    /\ countdownTime' = s.countdown.duration * 60
    /\ pending' = IF settings' # settings \/ countdownTime' # countdownTime
                  THEN {"settings"} ELSE pending
    /\ UNCHANGED <<studioVars, renderVars, assets, tickerX, frameCallbacks,
                   mounted, recorder>>

\* The Reset button
ResetCountdown == Idle /\ resetCountdown(settings, settings)

\* The duration input: the new duration is dispatched, then resetCountdown()
\* of the current render runs, which reads the duration of that render
SetCountdownDuration ==
    /\ Idle
    /\ \E d \in Durations \ {settings.countdown.duration} :
          resetCountdown(settings,
                         updateSetting(settings, "countdown", [duration |-> d]))

\* The interval of the countdown effect fires: setCountdownTime(prev => prev - 1)
CountdownTimerFires ==
    /\ Idle
    /\ countdownInterval
    /\ countdownTime' = countdownTime - 1
    /\ pending' = {"countdown"}
    /\ UNCHANGED <<studioVars, renderVars, settings, assets, tickerX,
                   frameCallbacks, mounted, countdownInterval, recorder>>

\* The browser finishes the load of an uploaded file, or gives it up
AssetLoaded ==
    /\ \E name \in DOMAIN assets, result \in {"ready", "failed"} :
          /\ assets[name].state = "loading"
          /\ assets' = [assets EXCEPT ![name].state = result]
    /\ UNCHANGED <<studioVars, pending, renderVars, settings, tickerX,
                   frameCallbacks, mounted, countdownTime, countdownInterval,
                   recorder>>

\* The Record button while nothing is recorded: startRecording() makes a
\* MediaRecorder on the composed stream of the current render and starts it
StartRecording ==
    /\ Idle
    /\ composedStream # 0
    /\ ~recorder.isRecording
    /\ recorder' = [state |-> "recording", isRecording |-> TRUE,
                    videoLive |-> TRUE]
    /\ UNCHANGED <<studioVars, pending, renderVars, settings, assets, tickerX,
                   frameCallbacks, mounted, countdownTime, countdownInterval>>

\* The Record button while recording: stopRecording() calls
\* mediaRecorderRef.current.stop(), which queues the stop event
StopRecording ==
    /\ Idle
    /\ recorder.isRecording
    /\ recorder.state = "recording"
    /\ recorder' = [recorder EXCEPT !.state = "stopped"]
    /\ UNCHANGED <<studioVars, pending, renderVars, settings, assets, tickerX,
                   frameCallbacks, mounted, countdownTime, countdownInterval>>

\* mediaRecorderRef.current.onstop: the recording is made into a URL and
\* setIsRecording(false)
RecorderOnStop ==
    /\ mounted
    /\ recorder.state \in {"stopped", "ended"}
    /\ recorder' = [recorder EXCEPT !.state = "inactive",
                                    !.isRecording = FALSE]
    /\ UNCHANGED <<studioVars, pending, renderVars, settings, assets, tickerX,
                   frameCallbacks, mounted, countdownTime, countdownInterval>>

\* The Exit button: the Studio leaves the page and the cleanups of its
\* effects run.  VideoPreview's loop cleanup cancels the pending callback,
\* the countdown effect's cleanup clears its interval and
\* the audio effect's cleanup stops the tracks of the composed stream; the
\* cleanup of useSources stops the tracks of the sources of its first render,
\* which are none.
Unmount ==
    /\ Idle
    /\ initPc = "done"
    /\ updating = 0
    /\ mounted' = FALSE
    /\ frameCallbacks' = cancelAnimationFrame(frameCallbacks, "current")
    /\ mixTrackLive' = MixTrackAfterCleanup(composedStream, mixTrackLive)
    /\ streams' = StopAllTracks(streams, FirstRenderSources)
    /\ countdownInterval' = FALSE
    /\ UNCHANGED <<sources, activeSources, layout, audioContextRef,
                   contextsCreated, connectedNodes, taps, tapsCreated,
                   composedStream, pending, initPc, defaultCam, updating,
                   compositor, videoElements, blurredSources, frame,
                   settings, assets, tickerX, countdownTime>>
    /\ blurLoops' = CancelledLoops(blurLoops)
    /\ recorder' = AfterCleanup(recorder, composedStream # 0)

Next ==
    \/ AddCamera
    \/ AddGuestSource
    \/ AddScreenShare
    \/ RemoveSource
    \/ ToggleMute
    \/ UpdateCameraStart
    \/ UpdateCameraResolve
    \/ UpdateCameraReject
    \/ ToggleStagePresence
    \/ SetLayout
    \/ RunEffects
    \/ InitCameraResolve
    \/ InitCameraReject
    \/ InitStageDefault
    \/ Tick
    \/ VideoReadyStateChange
    \/ ToggleBackgroundBlur
    \/ BlurResult
    \/ VideoResize
    \/ HandleLogoFileChange
    \/ RemoveLogo
    \/ HandleOverlayFileChange
    \/ ApplyProceduralOverlay
    \/ ClearOverlay
    \/ ToggleShow
    \/ SetTickerText
    \/ SetFreestyleText
    \/ SetFilters
    \/ SaveBulletList
    \/ DeleteBulletList
    \/ ToggleBulletList
    \/ AssetLoaded
    \/ Unmount
    \/ ToggleCountdown
    \/ ToggleCountdownRunning
    \/ ResetCountdown
    \/ SetCountdownDuration
    \/ CountdownTimerFires
    \/ StartRecording
    \/ StopRecording
    \/ RecorderOnStop
    \/ ProcessFrames
    \/ SendSettles

Spec == Init /\ [][Next]_vars

\* The registry, the stage and the audio graph without muting: the layout
\* stays solo and no guest is simulated.
NextAudio ==
    \/ AddCamera
    \/ AddScreenShare
    \/ RemoveSource
    \/ UpdateCameraStart
    \/ UpdateCameraResolve
    \/ UpdateCameraReject
    \/ ToggleStagePresence
    \/ RunEffects
    \/ InitCameraResolve
    \/ InitCameraReject
    \/ InitStageDefault

SpecAudio == InitStudio /\ [][NextAudio]_vars

\* The registry with muting, the stage and the audio graph: the sources are
\* the default camera of the init effect and screen shares with or without
\* audio; no further camera is added and no device is changed.
NextMute ==
    \/ AddScreenShare
    \/ RemoveSource
    \/ ToggleMute
    \/ ToggleStagePresence
    \/ RunEffects
    \/ InitCameraResolve
    \/ InitCameraReject
    \/ InitStageDefault

SpecMute == InitStudio /\ [][NextMute]_vars

\* The registry with muting and device changes: the operations of useSources
\* that make a stream or enable and disable its tracks, after the init effect
NextDevices ==
    \/ AddCamera
    \/ AddScreenShare
    \/ ToggleMute
    \/ UpdateCameraStart
    \/ UpdateCameraResolve
    \/ UpdateCameraReject
    \/ RunEffects
    \/ InitCameraResolve
    \/ InitCameraReject
    \/ InitStageDefault

SpecDevices == InitStudio /\ [][NextDevices]_vars

\* A recording session: the registry with muting, the stage and the audio
\* graph, and the Record button
NextRecording ==
    \/ AddScreenShare
    \/ RemoveSource
    \/ ToggleMute
    \/ ToggleStagePresence
    \/ RunEffects
    \/ InitCameraResolve
    \/ InitCameraReject
    \/ InitStageDefault
    \/ StartRecording
    \/ StopRecording
    \/ RecorderOnStop

SpecRecording == InitStudio /\ [][NextRecording]_vars

\* A whole session: the registry, the stage and the audio graph, and the
\* Exit button that takes the Studio off the page
NextSession ==
    \/ AddCamera
    \/ AddScreenShare
    \/ RemoveSource
    \/ UpdateCameraStart
    \/ UpdateCameraResolve
    \/ UpdateCameraReject
    \/ ToggleStagePresence
    \/ RunEffects
    \/ InitCameraResolve
    \/ InitCameraReject
    \/ InitStageDefault
    \/ Unmount

SpecSession == InitStudio /\ [][NextSession]_vars

\* ------------------------------------------------ the compositor on its own
\* The sources of a settled session, oldest first
RECURSIVE RegistryOf(_, _)
RegistryOf(ids, types) ==
    IF ids = {} THEN << >>
    ELSE LET id == CHOOSE x \in ids : \A y \in ids : x <= y IN
         << [id |-> id, type |-> types[id], stream |-> id, isMuted |-> FALSE,
             backgroundBlur |-> FALSE] >> \o RegistryOf(ids \ {id}, types)

\* The stage lists toggleStagePresence can build: no id twice, MaxStage at most
StageLists ==
    {s \in UNION {[1..n -> Ids] : n \in 0..MaxStage} :
        \A i, j \in DOMAIN s : i # j => s[i] # s[j]}

\* A session that has settled, seen by the compositor: MaxStreams sources
\* were added (cameras and guests with a microphone, screens without audio),
\* the oldest were removed again and at most MaxStage are left (the
\* compositor looks at staged sources only), some ids were put on the stage
\* (the stage keeps the id of a removed source), a layout was chosen, the
\* effects have run and no hidden video has loaded yet.
InitRender ==
    /\ compositor \in Compositors
    /\ \E n \in 0..MaxStage :
          LET ids == {id \in Ids : id > MaxStreams - n} IN
          \E types \in [ids -> SourceTypes] :
                /\ sources = RegistryOf(ids, types)
                /\ streams = [k \in Ids |->
                                [audio |-> IF k \in ids /\ types[k] = "screen"
                                           THEN 0 ELSE 1,
                                 enabled |-> TRUE,
                                 stopped |-> k \notin ids]]
    /\ activeSources \in StageLists
    /\ layout \in LayoutModes
    /\ audioContextRef = 1
    /\ contextsCreated = 1
    /\ LET graph == ConnectActive([id \in Ids |-> 0], {}, 0, activeSources, 1) IN
          /\ connectedNodes = graph.nodes
          /\ taps = graph.taps
          /\ tapsCreated = graph.made
    /\ mixTrackLive = FALSE
    /\ composedStream = 1
    /\ pending = {}
    /\ initPc = "done"
    /\ defaultCam = 0
    /\ updating = 0
    /\ videoElements = [id \in Ids |->
                          IF FindIndex(sources, id) = 0 THEN NoVideo
                          ELSE [present |-> TRUE, srcObject |-> id,
                                readyState |-> 0, videoWidth |-> 0,
                                videoHeight |-> 0]]
    /\ blurredSources = {}
    /\ blurLoops = IdleLoops(compositor)
    /\ frame = BlankFrame
    /\ settings = DefaultSettings
    /\ assets = [logo |-> NoAsset, overlayImage |-> NoAsset,
                 overlayVideo |-> NoAsset]
    /\ tickerX = 0
    /\ frameCallbacks = {"current"}
    /\ mounted = TRUE
    /\ countdownTime = settings.countdown.duration * 60
    /\ countdownInterval = FALSE
    /\ recorder = NoRecorder

NextRender ==
    \/ Tick
    \/ VideoReadyStateChange
    \/ ToggleBackgroundBlur
    \/ BlurResult
    \/ RunEffects

SpecRender == InitRender /\ [][NextRender]_vars

\* The rework's blur loop: cameras whose videos become ready and whose blur
\* is switched on and off, the callbacks and awaits of processFrames, and
\* the Exit button; the registry holds cameras only and the stage is empty
InitBlur ==
    /\ compositor = "rework"
    /\ layout = "solo"
    /\ activeSources = << >>
    /\ InitRender
    /\ \A i \in DOMAIN sources : sources[i].type = "camera"

NextBlur ==
    \/ VideoReadyStateChange
    \/ ToggleBackgroundBlur
    \/ RunEffects
    \/ ProcessFrames
    \/ SendSettles
    \/ Unmount

SpecBlur == InitBlur /\ [][NextBlur]_vars

\* ---------------------------------------------- the layouts on their own
\* A session with two sources of any types, both loaded and playing, any of
\* them staged in any order, under any layout
InitLayout ==
    /\ compositor \in Compositors
    /\ LET ids == {id \in Ids : id > MaxStreams - MaxStage} IN
       \E types \in [ids -> SourceTypes] :
          /\ sources = RegistryOf(ids, types)
          /\ streams = [k \in Ids |->
                          [audio |-> IF k \in ids /\ types[k] = "screen"
                                     THEN 0 ELSE 1,
                           enabled |-> TRUE,
                           stopped |-> k \notin ids]]
          /\ activeSources \in {s \in StageLists : Range(s) \subseteq ids}
    /\ layout \in LayoutModes
    /\ audioContextRef = 1
    /\ contextsCreated = 1
    /\ LET graph == ConnectActive([id \in Ids |-> 0], {}, 0, activeSources, 1) IN
          /\ connectedNodes = graph.nodes
          /\ taps = graph.taps
          /\ tapsCreated = graph.made
    /\ mixTrackLive = FALSE
    /\ composedStream = 1
    /\ pending = {}
    /\ initPc = "done"
    /\ defaultCam = 0
    /\ updating = 0
    /\ videoElements = [id \in Ids |->
                          IF FindIndex(sources, id) = 0 THEN NoVideo
                          ELSE [present |-> TRUE, srcObject |-> id,
                                readyState |-> 4,
                                videoWidth |-> CameraWidth,
                                videoHeight |-> CameraHeight]]
    /\ blurredSources = {}
    /\ blurLoops = IdleLoops(compositor)
    /\ frame = BlankFrame
    /\ settings = DefaultSettings
    /\ assets = [logo |-> NoAsset, overlayImage |-> NoAsset,
                 overlayVideo |-> NoAsset]
    /\ tickerX = 0
    /\ frameCallbacks = {"current"}
    /\ mounted = TRUE
    /\ countdownTime = settings.countdown.duration * 60
    /\ countdownInterval = FALSE
    /\ recorder = NoRecorder

NextLayout ==
    \/ Tick
    \/ VideoResize

SpecLayout == InitLayout /\ [][NextLayout]_vars

\* ---------------------------------------------- the overlays on their own
\* Every value of the props overlay.show, overlay.type, overlay.url and
\* overlay.style: the ones the handlers of the panel produce, and the stale
\* combinations a saved preset or another caller can hand to the compositor
OverlayCombos ==
    {[DefaultSettings.overlay EXCEPT !.show = show, !.type = type,
                                     !.url = url, !.style = style] :
        show \in BOOLEAN, type \in OverlayTypes, url \in {0, 1},
        style \in {"none"} \cup ProceduralStyles}

\* A logo was uploaded and one bullet list saved; every overlay is hidden
QuietSettings ==
    [logo        |-> [show |-> FALSE, url |-> 1],
     banner      |-> [show |-> FALSE],
     lowerThird  |-> [show |-> FALSE],
     overlay     |-> DefaultSettings.overlay,
     filters     |-> DefaultFilters,
     countdown   |-> [show |-> FALSE, duration |-> 5, running |-> FALSE],
     ticker      |-> [show |-> FALSE, text |-> 500],
     bulletLists |-> [lists |-> << <<"a", "\n", "b">> >>,
                      activeListId |-> 1,
                      show |-> FALSE],
     textOverlay |-> [show |-> FALSE, text |-> "Your Text Here"]]

\* The bullet lists of the panel: none, the list 1 with any items string,
\* the list 2, or both
BulletListInputs ==
    {<< >>, WithList(<< >>, 2, << "b" >>)}
        \cup {WithList(<< >>, 1, text) : text \in ItemStrings}
        \cup {WithList(WithList(<< >>, 2, << "b" >>), 1, text) : text \in ItemStrings}

\* Every bullet list setting: shown or hidden, no active list, an active
\* list that exists and one that was deleted
BulletSettings ==
    {[QuietSettings EXCEPT !.bulletLists =
         [lists |-> lists, activeListId |-> active, show |-> show]] :
        lists \in BulletListInputs, active \in {0} \cup BulletIds,
        show \in BOOLEAN}

\* Every combination of the show flags of the nine overlays under either
\* filter setting: an uploaded picture, an uploaded clip, a procedural
\* overlay or none; a logo that was uploaded; one bullet list, active
LayerSettings ==
    {[logo        |-> [show |-> flags[1], url |-> 1],
      banner      |-> [show |-> flags[2]],
      lowerThird  |-> [show |-> flags[3]],
      overlay     |-> o,
      filters     |-> f,
      countdown   |-> [show |-> flags[4], duration |-> 5, running |-> FALSE],
      ticker      |-> [show |-> flags[5], text |-> 500],
      bulletLists |-> [lists |-> << <<"a", "\n", "b">> >>, activeListId |-> 1,
                       show |-> flags[6]],
      textOverlay |-> [show |-> flags[7], text |-> "Your Text Here"]] :
        flags \in [1..7 -> BOOLEAN],
        f \in FilterSettings,
        o \in {DefaultSettings.overlay,
               handleOverlayFileChange(DefaultSettings, 1, "image").overlay,
               handleOverlayFileChange(DefaultSettings, 1, "video").overlay,
               applyProceduralOverlay(DefaultSettings, "geometric").overlay}}

\* Every overlay setting, with and without a logo, the other overlays all
\* shown or all hidden
StaleSettings ==
    {[logo        |-> [show |-> logoShow, url |-> logoUrl],
      banner      |-> [show |-> others],
      lowerThird  |-> [show |-> others],
      overlay     |-> o,
      filters     |-> DefaultFilters,
      countdown   |-> [show |-> others, duration |-> 5, running |-> FALSE],
      ticker      |-> [show |-> others, text |-> 500],
      bulletLists |-> [lists |-> << >>, activeListId |-> 0, show |-> others],
      textOverlay |-> [show |-> others, text |-> "   "]] :
        logoShow \in BOOLEAN, logoUrl \in {0, 1}, others \in BOOLEAN,
        o \in OverlayCombos}

\* The states of an element after the effect that loads the files: the
\* element of a file in use holds its URL; another element is new or holds
\* an earlier upload
ElementsFor(url, states) ==
    IF url # 0 THEN {[src |-> url, state |-> st] : st \in states \ {"empty"}}
    ELSE {NoAsset} \cup {[src |-> 2, state |-> st] : st \in states \ {"empty", "loading"}}

AssetsFor(s, states) ==
    [logo : ElementsFor(s.logo.url, states),
     overlayImage : ElementsFor(IF s.overlay.type = "image" THEN s.overlay.url ELSE 0,
                                states),
     overlayVideo : ElementsFor(IF s.overlay.type = "video" THEN s.overlay.url ELSE 0,
                                states)]

\* A session with a camera and a screen share, both playing, in which a
\* change of the settings has just been rendered: its effects draw the first
\* frame of the restarted loop.  Either any show flags with every file
\* loaded, on every stage and layout, or any overlay setting with the files
\* in any load state, or any bullet list setting, under the default layout
\* of two sources.
InitOverlay ==
    /\ compositor \in Compositors
    /\ LET ids == {id \in Ids : id > MaxStreams - MaxStage}
           first == CHOOSE x \in ids : \A y \in ids : x <= y
           types == [id \in ids |-> IF id = first THEN "camera" ELSE "screen"]
           staged == CHOOSE s \in StageLists :
                        Range(s) = ids /\ s[1] = first
       IN
       /\ sources = RegistryOf(ids, types)
       /\ streams = [k \in Ids |->
                       [audio |-> IF k \in ids /\ types[k] = "screen"
                                  THEN 0 ELSE 1,
                        enabled |-> TRUE,
                        stopped |-> k \notin ids]]
       /\ \/ /\ \/ activeSources \in {<< >>, <<first>>} /\ layout = "solo"
                \/ activeSources = staged /\ layout \in LayoutModes
             /\ settings \in LayerSettings
             /\ assets \in AssetsFor(settings, {"ready"})
          \/ /\ activeSources = staged
             /\ layout = "pip"
             /\ settings \in StaleSettings
             /\ assets \in AssetsFor(settings, AssetStates)
          \/ /\ activeSources = staged
             /\ layout = "pip"
             /\ settings \in BulletSettings
             /\ assets \in AssetsFor(settings, {"ready"})
    /\ audioContextRef = 1
    /\ contextsCreated = 1
    /\ LET graph == ConnectActive([id \in Ids |-> 0], {}, 0, activeSources, 1) IN
          /\ connectedNodes = graph.nodes
          /\ taps = graph.taps
          /\ tapsCreated = graph.made
    /\ mixTrackLive = FALSE
    /\ composedStream = 1
    /\ pending = {"settings"}
    /\ initPc = "done"
    /\ defaultCam = 0
    /\ updating = 0
    /\ videoElements = [id \in Ids |->
                          IF FindIndex(sources, id) = 0 THEN NoVideo
                          ELSE [present |-> TRUE, srcObject |-> id,
                                readyState |-> 4,
                                videoWidth |-> CameraWidth,
                                videoHeight |-> CameraHeight]]
    /\ blurredSources = {}
    /\ blurLoops = IdleLoops(compositor)
    /\ frame = BlankFrame
    /\ tickerX = 0
    /\ frameCallbacks = {"current"}
    /\ mounted = TRUE
    /\ countdownTime = settings.countdown.duration * 60
    /\ countdownInterval = FALSE
    /\ recorder = NoRecorder

NextOverlay == RunEffects

SpecOverlay == InitOverlay /\ [][NextOverlay]_vars

\* The bullet lists in the build that has them (VideoPreview.tsx)
InitBullets ==
    /\ compositor = "current"
    /\ settings \in BulletSettings
    /\ assets = [logo |-> [src |-> 1, state |-> "ready"],
                 overlayImage |-> NoAsset, overlayVideo |-> NoAsset]
    /\ InitOverlay

NextBullets == RunEffects

SpecBullets == InitBullets /\ [][NextBullets]_vars

\* The countdown: a session whose stage is still empty, the countdown hidden,
\* paused and set to the default 5 minutes
InitCountdown ==
    /\ sources = << >>
    /\ activeSources = << >>
    /\ layout = "pip"
    /\ compositor = "current"
    /\ InitRender

NextCountdown ==
    \/ Tick
    \/ ToggleCountdown
    \/ ToggleCountdownRunning
    \/ ResetCountdown
    \/ SetCountdownDuration
    \/ CountdownTimerFires
    \/ RunEffects

SpecCountdown == InitCountdown /\ [][NextCountdown]_vars

\* The ticker: a session whose stage is still empty, the loop running, the
\* offset at its initial 0; the show buttons of the ticker and of the banner
\* and the ticker text change the settings while the loop ticks
InitTicker ==
    /\ sources = << >>
    /\ activeSources = << >>
    /\ layout = "pip"
    /\ InitRender

NextTicker ==
    \/ Tick
    \/ ToggleTicker
    \/ ToggleBanner
    \/ SetTickerText
    \/ RunEffects

SpecTicker == InitTicker /\ [][NextTicker]_vars

\* The render loop: a session with a camera and a screen share on the stage,
\* every overlay hidden, in which a change of the settings has just been
\* rendered.  The layout buttons and the show button of the ticker restart
\* the loop, the loop ticks, and the session is left.
InitLoop ==
    /\ layout = "pip"
    /\ settings = QuietSettings
    /\ assets = [logo |-> [src |-> 1, state |-> "ready"],
                 overlayImage |-> NoAsset, overlayVideo |-> NoAsset]
    /\ InitOverlay

NextLoop ==
    \/ Tick
    \/ SetLayout
    \/ ToggleTicker
    \/ RunEffects
    \/ Unmount

SpecLoop == InitLoop /\ [][NextLoop]_vars

TypeOK ==
    /\ Len(streams) <= MaxStreams
    /\ Len(sources) <= MaxSources
    /\ tapsCreated <= MaxTaps
    /\ layout \in LayoutModes
    /\ \A i \in DOMAIN sources : sources[i].type \in SourceTypes

\* ======================================================= the audio graph
\* A run of the audio effect: the effects of a render that changed sources or
\* activeSources (only RunEffects empties pending).
PassStep == pending \cap AudioTokens # {} /\ pending' = {}

\* The effects of the last render have run, and the audio effect ran at least once.
Reconciliated == pending = {} /\ composedStream # 0

TappedIds == {id \in Ids : connectedNodes[id] # 0}

Exists(id) == FindIndex(sources, id) # 0

CarriesAudio(id) == Exists(id) /\ HasAudio(sources[FindIndex(sources, id)])

\* C1: after every reconciliation pass the ids holding a connected tap are
\* exactly the staged ids whose source is still in the registry and has an
\* audio track; a source removed while staged has lost its tap.
C1_TapsAreLiveActiveAudio ==
    Reconciliated =>
        /\ TappedIds = {id \in Range(activeSources) : CarriesAudio(id)}
        /\ \A t \in taps : connectedNodes[t.src] = t.inst

\* C2: a reconciliation pass is incremental.  A staged id that already holds
\* a tap keeps the same, still connected, tap instance; the taps disconnected
\* are exactly those of ids no longer staged; exactly one tap is created for
\* each staged id that carries audio and had no tap, and no other.
NewlyTapped == {id \in Range(activeSources) :
                    connectedNodes[id] = 0 /\ CarriesAudio(id)}

C2_PassIsIncremental ==
    [][PassStep =>
        /\ \A id \in TappedIds : Includes(activeSources, id) =>
              /\ connectedNodes'[id] = connectedNodes[id]
              /\ \E t \in taps : t.inst = connectedNodes[id] /\ t \in taps'
        /\ taps \ taps' = {t \in taps : ~Includes(activeSources, t.src)}
        /\ \A id \in NewlyTapped :
              Cardinality({t \in taps' \ taps : t.src = id}) = 1
        /\ \A t \in taps' \ taps : t.src \in NewlyTapped /\ t.inst > tapsCreated
        /\ tapsCreated' = tapsCreated + Cardinality(NewlyTapped)
    ]_vars

\* A's tap (instance 1) survived B being unstaged and restaged (B's tap is the
\* third instance made).
C2_Witness ==
    /\ pending = {}
    /\ Len(activeSources) = 2
    /\ connectedNodes[activeSources[1]] = 1
    /\ connectedNodes[activeSources[2]] = 3
    /\ Cardinality(taps) = 2

\* C3: recomposing the output never stops the mix bus: the audio track of
\* the composed stream is live whenever there is a composed stream.
C3_MixTrackStaysLive == composedStream # 0 => mixTrackLive

\* C4: at most one audio context and destination are created in a session,
\* and every tap is connected to that destination.
C4_SingleMixBus ==
    /\ contextsCreated <= 1
    /\ audioContextRef = contextsCreated
    /\ \A t \in taps : t.dest = 1
    /\ composedStream \in {0, 1}

\* Several passes have run and created taps.
C4_Witness == tapsCreated >= 2 /\ Cardinality(taps) >= 1 /\ contextsCreated = 1

\* C5: toggleMute(id) flips the enabled flag of that source's audio tracks
\* and its isMuted flag and nothing else, and the pass that a mute or unmute
\* triggers leaves the tap map as it was.
MuteStep == pending = {} /\ pending' = {"mute"}

C5_MuteLeavesTaps ==
    [][/\ MuteStep =>
            /\ Len(sources') = Len(sources)
            /\ \E i \in DOMAIN sources :
                  /\ sources'[i] = [sources[i] EXCEPT !.isMuted = ~sources[i].isMuted]
                  /\ \A j \in DOMAIN sources : j # i => sources'[j] = sources[j]
                  /\ streams' = [streams EXCEPT ![sources[i].stream].enabled =
                                                    ~sources'[i].isMuted]
            /\ UNCHANGED <<activeSources, connectedNodes, taps, tapsCreated>>
       /\ (PassStep /\ pending = {"mute"}) =>
            UNCHANGED <<connectedNodes, taps, tapsCreated>>
    ]_vars

\* A staged source is muted, the pass has run, and its tap is still connected.
C5_Witness ==
    /\ pending = {}
    /\ \E i \in DOMAIN sources :
          /\ sources[i].isMuted
          /\ ~streams[sources[i].stream].enabled
          /\ Includes(activeSources, sources[i].id)
          /\ \E t \in taps : t.src = sources[i].id /\ t.stream = sources[i].stream

\* ============================================================ the stage
\* C6: the stage set holds at most 2 ids and none twice, and toggling an
\* unstaged id while 2 ids are staged leaves it unchanged.
C6_StageAtMostTwo ==
    /\ Len(activeSources) <= 2
    /\ \A i, j \in DOMAIN activeSources : i # j => activeSources[i] # activeSources[j]
    /\ Len(activeSources) = 2 =>
          \A id \in Ids : ~Includes(activeSources, id) =>
                toggleStagePresence(activeSources, id) = activeSources

\* Two ids are staged and the registry holds a source that is not staged.
C6_Witness ==
    /\ Len(activeSources) = 2
    /\ \E i \in DOMAIN sources : ~Includes(activeSources, sources[i].id)
    /\ Idle

\* C7: a staged id whose source has left the registry is dropped: it keeps no
\* tap and does not stay in the stage set, so it does not count against the
\* 2-slot limit.
C7_StaleIdDropped ==
    Reconciliated =>
        /\ \A id \in Range(activeSources) : Exists(id)
        /\ \A id \in TappedIds : Exists(id)

\* ===================================================== the frame compositor
\* A tick that changed the picture: a turn of the loop (Tick), or the frame
\* that loop() draws when the loop effect starts it (RunEffects).
TickStep == frame' # frame

\* The staged ids, in stage order, whose source exists and whose hidden
\* <video> has a frame ready.
FrameReady(id) ==
    /\ Exists(id)
    /\ videoElements[id].present
    /\ videoElements[id].readyState >= 3

StageReady == SelectSeq(activeSources, FrameReady)

\* The drawing calls of a frame that draw a source
SourceOps(f) == SelectSeq(f.ops, LAMBDA op : op.kind = "source")

\* The source is drawn over the whole canvas, contained, unclipped
FullCanvasContain(op, id) ==
    /\ op.id = id
    /\ op.x = 0 /\ op.y = 0 /\ op.w = CanvasWidth * 10 /\ op.h = CanvasHeight * 10
    /\ op.fit = "contain"
    /\ op.clip = "none"

\* C8: in each tick the drawable list is exactly the staged ids, in stage
\* order, whose source is in the registry and whose decode element has a frame
\* ready (readyState >= 3); other ids are left out without an error, and the
\* list is never longer than the stage.
C8_DrawableAreReadyStageSources ==
    [][TickStep =>
          /\ frame'.drawable = StageReady'
          /\ ~frame'.error
          /\ Len(frame'.drawable) <= Len(activeSources)]_vars

\* C9: with fewer than 2 drawable sources the tick degrades without error in
\* every layout mode: none draws the placeholder with the centred prompt and
\* no source, one draws that source over the full canvas with contain fit,
\* and the second slot of the list is never read.
C9_FewerThanTwoDegrades ==
    [][(TickStep /\ Len(frame'.drawable) < 2) =>
          /\ ~frame'.error
          /\ 2 \notin frame'.reads
          /\ Len(frame'.drawable) = 0 =>
                /\ SourceOps(frame') = << >>
                /\ \E k \in DOMAIN frame'.ops :
                      /\ frame'.ops[k].kind = "placeholder"
                      /\ frame'.ops[k].w = CanvasWidth * 10
                      /\ frame'.ops[k].h = CanvasHeight * 10
                /\ \E k \in DOMAIN frame'.ops :
                      /\ frame'.ops[k].kind = "prompt"
                      /\ frame'.ops[k].x * 2 = CanvasWidth * 10
                      /\ frame'.ops[k].y * 2 = CanvasHeight * 10
          /\ Len(frame'.drawable) = 1 =>
                /\ Len(SourceOps(frame')) = 1
                /\ FullCanvasContain(SourceOps(frame')[1], frame'.drawable[1])
                /\ \A k \in DOMAIN frame'.ops :
                      frame'.ops[k].kind \notin {"placeholder", "prompt"}]_vars

\* A tick drew the only drawable source of a two-id stage under a two-source
\* layout.
C9_Witness ==
    /\ frame.rendered
    /\ \E brokenThrows \in BOOLEAN :
          frame = renderCanvas(videoElements, assets, brokenThrows)
    /\ Len(activeSources) = 2
    /\ Len(frame.drawable) = 1
    /\ layout = "cinematic"

\* C10: layout solo with 2 drawable sources degrades to solo framing: exactly
\* one source is drawn, over the full canvas with contain fit, and no inset of
\* the second source.
C10_SoloWithTwoIsSoloFraming ==
    [][(TickStep /\ layout = "solo" /\ Len(frame'.drawable) = 2) =>
          /\ Len(SourceOps(frame')) = 1
          /\ \E k \in DOMAIN frame'.drawable :
                FullCanvasContain(SourceOps(frame')[1], frame'.drawable[k])]_vars

\* The type of the source a drawing call draws
OpSourceType(op) == sources[FindIndex(sources, op.id)].type

\* C11: in every layout mode and at either stage position a screen-type
\* source is drawn with contain fit, never cover, the second source of the
\* cinematic layout (circular inset) and of pip included.
C11_ScreenAlwaysContain ==
    [][TickStep =>
          \A k \in DOMAIN frame'.ops :
              (frame'.ops[k].kind = "source" /\ OpSourceType(frame'.ops[k]) = "screen")
                  => frame'.ops[k].fit = "contain"]_vars

\* ================================================================ geometry
\* The interiors of the placement rectangles of two drawing calls are disjoint
DisjointInteriors(a, b) ==
    \/ a.x + a.w <= b.x
    \/ b.x + b.w <= a.x
    \/ a.y + a.h <= b.y
    \/ b.y + b.h <= a.y

\* C12: in the 2-source layouts side-by-side, split-vertical, hero-below and
\* sidebar, for every source aspect ratio, the placement rectangles of the
\* two sources have disjoint interiors; pip and cinematic overlap.
C12_PlacementsDisjoint ==
    [][(TickStep /\ Len(frame'.drawable) = 2) =>
          LET placed == SourceOps(frame') IN
          /\ layout \in {"side-by-side", "split-vertical", "hero-below", "sidebar"}
                => /\ Len(placed) = 2
                   /\ DisjointInteriors(placed[1], placed[2])
          /\ layout \in {"pip", "cinematic"}
                => /\ Len(placed) = 2
                   /\ ~DisjointInteriors(placed[1], placed[2])]_vars

\* A tick laid out two sources in the sidebar layout, one of them portrait.
C12_Witness ==
    /\ frame.rendered
    /\ \E brokenThrows \in BOOLEAN :
          frame = renderCanvas(videoElements, assets, brokenThrows)
    /\ layout = "sidebar"
    /\ Len(SourceOps(frame)) = 2
    /\ \E id \in Range(frame.drawable) :
          videoElements[id].videoHeight > videoElements[id].videoWidth

\* The placement rectangle of a drawing call lies inside the canvas
InsideCanvas(op) ==
    /\ 0 <= op.x /\ op.x + op.w <= CanvasWidth * 10
    /\ 0 <= op.y /\ op.y + op.h <= CanvasHeight * 10
    /\ op.w >= 0 /\ op.h >= 0

\* C13: in every layout mode, for every number of drawable sources and every
\* source aspect ratio (tall portrait sources in the sidebar inset included),
\* the placement rectangle of each source lies inside [0,cw] x [0,ch] of the
\* 1280x720 canvas.
C13_PlacementsInsideCanvas ==
    [][TickStep =>
          \A k \in DOMAIN frame'.ops :
              frame'.ops[k].kind = "source" => InsideCanvas(frame'.ops[k])]_vars

\* The sidebar layout: the main area (75% of the width, right of the column)
\* and the inset (top left of the 25% column)
InMainArea(op) ==
    /\ op.x = (CanvasWidth * 10 * 25) \div 100
    /\ op.y = 0
    /\ op.w = (CanvasWidth * 10 * 75) \div 100
    /\ op.h = CanvasHeight * 10

InInset(op) ==
    /\ op.x > 0 /\ op.x + op.w < (CanvasWidth * 10 * 25) \div 100
    /\ op.y > 0 /\ op.y < (CanvasHeight * 10) \div 2

TypeOfSource(id) == sources[FindIndex(sources, id)].type

\* C20: in the sidebar layout with 2 drawable sources, for every pair of
\* source types in either stage order: when exactly one of the two is a
\* screen it is drawn in the main area and the other in the inset; otherwise
\* source2 is drawn in the main area and source1 in the inset; each of the two
\* is drawn exactly once.
C20_SidebarAssignment ==
    [][(TickStep /\ layout = "sidebar" /\ Len(frame'.drawable) = 2) =>
          LET source1 == frame'.drawable[1]
              source2 == frame'.drawable[2]
              placed  == SourceOps(frame')
              oneScreen == (TypeOfSource(source1) = "screen")
                              # (TypeOfSource(source2) = "screen")
              main  == IF oneScreen /\ TypeOfSource(source1) = "screen"
                       THEN source1 ELSE source2
              inset == IF main = source1 THEN source2 ELSE source1
          IN /\ Len(placed) = 2
             /\ \E k \in DOMAIN placed : placed[k].id = main /\ InMainArea(placed[k])
             /\ \E k \in DOMAIN placed : placed[k].id = inset /\ InInset(placed[k])]_vars

\* ============================================================ the overlays
\* The overlays, bottom to top
FixedOrder == << "overlay", "procedural", "text", "ticker", "logo",
                 "bulletList", "banner", "lowerThird", "countdown" >>

OverlayKinds == Range(FixedOrder)

Rank(kind) == CHOOSE i \in DOMAIN FixedOrder : FixedOrder[i] = kind

\* The frame drew every one of the kinds
Drew(f, kinds) == \A kind \in kinds : \E k \in DOMAIN f.ops : f.ops[k].kind = kind

\* C14: in every tick, for every combination of show flags, the overlay draw
\* events come after all source draw events and form a subsequence of the
\* fixed order: uploaded overlay, procedural overlay, freestyle text, ticker,
\* logo, bullet list, banner, lower third, countdown.
C14_OverlaysInFixedOrder ==
    [][TickStep =>
          \A i, j \in DOMAIN frame'.ops :
             (i < j /\ frame'.ops[i].kind \in OverlayKinds) =>
                /\ frame'.ops[j].kind \in OverlayKinds
                /\ Rank(frame'.ops[i].kind) < Rank(frame'.ops[j].kind)]_vars

\* A frame of two sources under the cinematic layout with the uploaded
\* overlay, the text, the ticker, the logo, the bullet list, the banner, the
\* lower third and the countdown all drawn.
C14_Witness ==
    /\ frame.rendered
    /\ layout = "cinematic"
    /\ Len(SourceOps(frame)) = 2
    /\ Drew(frame, OverlayKinds \ {"procedural"})
    /\ frame.ops[Len(frame.ops)].kind = "countdown"

\* C15: at every overlay draw event of every tick the context filter is
\* 'none', for every layout (the cinematic layout with its save/clip/restore
\* included) and every filter setting: the filter applies to the source
\* layer only.
C15_OverlaysUnfiltered ==
    [][TickStep =>
          \A k \in DOMAIN frame'.ops :
             frame'.ops[k].kind \in OverlayKinds => frame'.ops[k].filter = "none"]_vars

\* A frame of the cinematic layout under a filter setting other than the
\* default: both sources were drawn through the filter, the inset inside
\* save/restore, and the overlays after them were drawn.
C15_Witness ==
    /\ frame.rendered
    /\ layout = "cinematic"
    /\ settings.filters # DefaultFilters
    /\ Len(SourceOps(frame)) = 2
    /\ \A k \in DOMAIN frame.ops :
          frame.ops[k].kind = "source" =>
             frame.ops[k].filter = FilterString(settings.filters)
    /\ \E k \in DOMAIN frame.ops : frame.ops[k].clip # "none"
    /\ Drew(frame, {"overlay", "logo", "banner", "countdown"})

\* The uploaded overlay is shown and its asset is not ready to be drawn: the
\* image still loading or failed, the video without a frame
UnreadyUpload(s, loaded) ==
    /\ s.overlay.show
    /\ s.overlay.url # 0
    /\ \/ s.overlay.type = "image" /\ ~ImageHasSize(loaded.overlayImage)
       \/ s.overlay.type = "video"
            /\ VideoReadyStateOf(loaded.overlayVideo) < HaveFutureData

\* C18: no exception escapes a tick, whatever the state of the uploaded
\* overlay asset (still loading, failed to load, zero intrinsic size): the
\* unready uploaded overlay or logo is skipped and the remaining overlays of
\* that tick (banner, lower third, countdown) are drawn.
C18_UnreadyAssetSkipped ==
    [][TickStep =>
          /\ ~frame'.error
          /\ UnreadyUpload(settings', assets') => ~Drew(frame', {"overlay"})
          /\ ~ImageHasSize(assets'.logo) => ~Drew(frame', {"logo"})
          /\ settings'.banner.show => Drew(frame', {"banner"})
          /\ settings'.lowerThird.show => Drew(frame', {"lowerThird"})
          /\ settings'.countdown.show => Drew(frame', {"countdown"})]_vars

\* C16: in any single tick at most one full-screen overlay variant is
\* drawn: for every combination of overlay.show, overlay.type, overlay.url
\* and overlay.style, stale conflicting ones included (type procedural with
\* a leftover url, type image with a leftover style), the uploaded overlay
\* and the procedural overlay are never both drawn, and no error is raised.
C16_OneFullScreenOverlay ==
    [][TickStep =>
          /\ ~(Drew(frame', {"overlay"}) /\ Drew(frame', {"procedural"}))
          /\ ~frame'.error]_vars

\* The frame drew the ticker
TickerDrawn(f) == Drew(f, {"ticker"})

C19_LoopCancelled ==
    [][/\ Cardinality(frameCallbacks') <= 1
       /\ "stale" \notin frameCallbacks'
       /\ TickStep => (frame'.loop = "current" /\ mounted)
       /\ ~mounted' => frameCallbacks' = {}]_vars

\* The session was left after the loop had been restarted by a change of
\* the layout and had ticked with the ticker on: nothing is pending
C19_Witness ==
    /\ ~mounted
    /\ frameCallbacks = {}
    /\ layout # "pip"
    /\ settings.ticker.show
    /\ frame.rendered
    /\ tickerX < -2

\* ============================================================ the session end
\* The Studio has left the page
SessionEnded == ~mounted

\* C21: at session end the mix bus is torn down: when the studio is left,
\* every remaining tap is disconnected, the tap map is empty and the audio
\* context is closed; the context is created lazily, by the first
\* reconciliation pass of a session.
C21_MixBusTornDown ==
    [][/\ SessionEnded' =>
             /\ taps' = {}
             /\ TappedIds' = {}
             /\ audioContextRef' # 0 => audioContextRef' \in ClosedContexts
       /\ (audioContextRef = 0 /\ audioContextRef' # 0) => PassStep]_vars

\* C22: when the component that uses useSources unmounts, every track of
\* every source that is in the registry at that moment is stopped, whatever
\* sequence of addCamera, addScreenShare, updateCamera and removeSource came
\* before.
C22_UnmountStopsAllTracks ==
    [][(mounted /\ SessionEnded') =>
          \A i \in DOMAIN sources : streams'[sources[i].stream].stopped]_vars

\* ============================================================ the bullet list
\* The lines of an items string that hold a character other than a blank
RECURSIVE NonBlankLines(_, _, _)
NonBlankLines(text, line, seen) ==
    LET done == IF seen THEN << line >> ELSE << >> IN
    IF text = << >> THEN done
    ELSE IF Head(text) = "\n" THEN done \o NonBlankLines(Tail(text), << >>, FALSE)
         ELSE NonBlankLines(Tail(text), Append(line, Head(text)),
                            seen \/ Head(text) # " ")

\* C23: the bullet-list overlay draws only the list whose id equals
\* activeListId (nothing when show is false, activeListId is null, or no list
\* has that id); its rendered items are the lines of the items string split
\* at newlines with every empty or whitespace-only line dropped and the
\* order of the others kept, so items "a\n\nb" gives exactly the 2 lines a, b.
C23_BulletListItems ==
    [][TickStep =>
          LET b == settings'.bulletLists
              drawn == SelectSeq(frame'.ops, LAMBDA op : op.kind = "bulletList") IN
          IF b.show /\ b.activeListId # 0 /\ b.activeListId \in DOMAIN b.lists
          THEN /\ Len(drawn) = 1
               /\ drawn[1].id = b.activeListId
               /\ frame'.items = NonBlankLines(b.lists[b.activeListId], << >>, FALSE)
               /\ b.lists[b.activeListId] = << "a", "\n", "\n", "b" >> =>
                     frame'.items = << << "a" >>, << "b" >> >>
          ELSE drawn = << >> /\ frame'.items = << >>]_vars

\* The frame of the list "a\n\nb", active and shown beside another list:
\* two lines were written
C23_Witness ==
    /\ frame.rendered
    /\ settings.bulletLists.show
    /\ settings.bulletLists.activeListId = 1
    /\ DOMAIN settings.bulletLists.lists = {1, 2}
    /\ settings.bulletLists.lists[1] = << "a", "\n", "\n", "b" >>
    /\ Drew(frame, {"bulletList"})
    /\ Len(frame.items) = 2

\* ================================================================ the countdown
\* A number below 100 written with two digits
TwoDigits(n) == IF n < 10 THEN "0" \o ToString(n) ELSE ToString(n)

\* C24: the countdown overlay shows the externally supplied remaining time
\* as mm:ss and keeps no time of its own: for every remaining time s that the
\* countdown can take (0 <= s <= 3600, durations of 1 to 60 minutes being
\* allowed) the text shows the minutes floor(s / 60) and the seconds s mod 60,
\* each with two digits.
C24_CountdownText ==
    [][TickStep =>
          IF settings.countdown.show
          THEN /\ countdownTime' \in 0..3600
               /\ frame'.clock = TwoDigits(countdownTime' \div 60) \o ":"
                                    \o TwoDigits(countdownTime' % 60)
          ELSE frame'.clock = ""]_vars

\* C25: changing the countdown duration resets the countdown to the new
\* duration: right after the duration input changes to d minutes the
\* countdown is not running and the remaining time is d * 60 seconds, not the
\* previous duration * 60.
C25_DurationResetsCountdown ==
    [][settings'.countdown.duration # settings.countdown.duration =>
          /\ ~settings'.countdown.running
          /\ countdownTime' = settings'.countdown.duration * 60]_vars

\* The interval of the countdown fired in this step
TimerFired == pending' = {"countdown"}

\* The step set the countdown back to the duration of the render it ran in
WasReset ==
    /\ countdownTime' = settings.countdown.duration * 60
    /\ ~settings'.countdown.running

AudioDisabled(n) == ~streams[n].enabled

\* C26: for every source with audio, isMuted is true exactly when every audio
\* track of its current stream is disabled, after any sequence of addCamera,
\* addScreenShare, toggleMute and updateCamera: a muted source whose stream
\* is replaced by updateCamera stays silent.
C26_MutedMeansSilent ==
    \A i \in DOMAIN sources :
        HasAudio(sources[i]) =>
            (sources[i].isMuted <=> AudioDisabled(sources[i].stream))

\* The taps of the graph that belong to source id
TapsOf(id) == {t \in taps : t.src = id}

\* C27: after updateCamera has replaced the stream of a staged source, the
\* reconciliation pass leaves the tap registered for that source id connected
\* to the source's new stream and never to the stopped old stream: after
\* every pass each staged source with audio has a tap, and each tap of a
\* source in the registry reads the source's current stream.
C27_TapFollowsStream ==
    Reconciliated =>
        \A i \in DOMAIN sources :
            LET id == sources[i].id IN
            /\ (Includes(activeSources, id) /\ HasAudio(sources[i]))
                  => TapsOf(id) # {}
            /\ \A t \in TapsOf(id) :
                  /\ t.stream = sources[i].stream
                  /\ ~streams[t.stream].stopped

\* A track of the stream being recorded is stopped in this step
RecordedTrackStopped ==
    \/ recorder.videoLive /\ ~recorder'.videoLive
    \/ mixTrackLive /\ ~mixTrackLive'

\* C28: while a recording is in progress the stream handed to the recorder at
\* startRecording stays live: staging or unstaging, adding or removing a
\* source and toggling mute between startRecording and stopRecording never
\* stop a track of the stream being recorded, and the recording ends only
\* through stopRecording.
C28_RecordedStreamStaysLive ==
    [][/\ recorder.state = "recording" => ~RecordedTrackStopped
       /\ (recorder.isRecording /\ ~recorder'.isRecording)
             => recorder.state = "stopped"]_vars

\* The loops that belong to a run of the blur effect whose cleanup has run
CleanedUpLoops == {l \in blurLoops : l.gen = "stale"}

\* C29: the background-blur frame-processing loop is cancelled with its
\* effect: after the effect's cleanup has run (sources changed or component
\* unmounted), even while a segmentation.send call is still awaited, no
\* further processFrames callback of that loop is scheduled or run, so at
\* most one processing loop is alive at any time.  A cleaned-up loop may
\* still be inside the send it awaited, never past it.
C29_BlurLoopCancelled ==
    /\ \A l \in CleanedUpLoops : l.pc = "awaiting"
    /\ Cardinality(blurLoops \ CleanedUpLoops) <= 1
    /\ ~mounted => blurLoops \ CleanedUpLoops = {}

====
